---- MODULE Spec2Model ----
(***************************************************************************)
(* Model of the typography rule engine of figma-tt-typographer:            *)
(* the locale detector, the protected-range finder, the rule registry,     *)
(* the rules themselves and applyTypography.                               *)
(*                                                                         *)
(* A text is a sequence of UTF-16 code units (every character the model    *)
(* uses lies in the Basic Multilingual Plane, so code unit = code point).  *)
(* Sequences are 1-based; offsets handed between functions of the program  *)
(* (match.index, protected ranges) stay 0-based as in the source.          *)
(***************************************************************************)
EXTENDS Integers, Sequences, FiniteSets, TLC

\* ------------------------------------------------------------------------
\* Characters (ECMAScript character classes, regular expressions without /u)
\* ------------------------------------------------------------------------

\* \s : WhiteSpace and LineTerminator code units
WS == {9, 10, 11, 12, 13, 32, 160, 5760, 8232, 8233, 8239, 8287, 12288, 65279}
        \cup (8192..8202)
\* line terminators, the places where ^ and $ match under the m flag
LT == {10, 13, 8232, 8233}
\* \d
DIGIT == 48..57
\* \w
WORD == (48..57) \cup (65..90) \cup (97..122) \cup {95}
\* [а-яА-ЯёЁ]
CYR == (1040..1103) \cup {1025, 1105}

\* String.prototype.toUpperCase / toLowerCase on one code unit, for the
\* scripts the rules name (Basic Latin, Latin-1, oe ligature, Cyrillic)
toUpperCase(c) ==
    IF c \in 97..122 THEN c - 32
    ELSE IF c \in (224..254) \ {247} THEN c - 32
    ELSE IF c = 255 THEN 376
    ELSE IF c = 339 THEN 338
    ELSE IF c \in 1072..1103 THEN c - 32
    ELSE IF c \in 1104..1119 THEN c - 80
    ELSE c

toLowerCase(c) ==
    IF c \in 65..90 THEN c + 32
    ELSE IF c \in (192..222) \ {215} THEN c + 32
    ELSE IF c = 376 THEN 255
    ELSE IF c = 338 THEN 339
    ELSE IF c \in 1040..1071 THEN c + 32
    ELSE IF c \in 1024..1039 THEN c + 80
    ELSE c

\* ------------------------------------------------------------------------
\* Regular-expression building blocks
\* ------------------------------------------------------------------------

\* index just past the longest run of characters of S that starts at i
SpanIn(t, i, S) ==
    LET stops == {k \in i..Len(t) : t[k] \notin S}
    IN  IF i > Len(t) THEN i
        ELSE IF stops = {} THEN Len(t) + 1
        ELSE CHOOSE k \in stops : \A j \in stops : k <= j

\* index just past the longest run of characters outside S that starts at i
SpanNotIn(t, i, S) ==
    LET stops == {k \in i..Len(t) : t[k] \in S}
    IN  IF i > Len(t) THEN i
        ELSE IF stops = {} THEN Len(t) + 1
        ELSE CHOOSE k \in stops : \A j \in stops : k <= j

\* the literal w occurs in t at index i
LitAt(t, i, w) ==
    /\ i >= 1
    /\ i + Len(w) - 1 <= Len(t)
    /\ \A k \in 1..Len(w) : t[i + k - 1] = w[k]

\* the literal w occurs in t at index i, compared as the i flag compares
LitAtI(t, i, w) ==
    /\ i >= 1
    /\ i + Len(w) - 1 <= Len(t)
    /\ \A k \in 1..Len(w) : toUpperCase(t[i + k - 1]) = toUpperCase(w[k])

\* ^ under the m flag: start of input or just after a line terminator
BOL(t, i) == i = 1 \/ (i >= 2 /\ i <= Len(t) + 1 /\ t[i - 1] \in LT)

\* $ under the m flag: end of input or just before a line terminator
EOL(t, i) == i = Len(t) + 1 \/ (i <= Len(t) /\ t[i] \in LT)

\* \b at the gap before index i
WordBoundary(t, i) ==
    LET a == i >= 2 /\ i <= Len(t) + 1 /\ t[i - 1] \in WORD
        b == i >= 1 /\ i <= Len(t) /\ t[i] \in WORD
    IN  a # b

\* String.prototype.replace with a global pattern: m[i] is the index just
\* past the match that starts at i (0 when the pattern does not match at i),
\* r[i] the replacement of that match.  The scan takes the leftmost match at
\* or after its position, copies the text before it, and resumes past it.
ReplaceAll(t, m, r) ==
    LET n == Len(t)
        starts == {i \in 1..n : m[i] > i}
        f[i \in 1..(n + 1)] ==
            LET later == {j \in starts : j >= i}
                j0 == CHOOSE j \in later : \A k \in later : j <= k
            IN  IF later = {} THEN SubSeq(t, i, n)
                ELSE SubSeq(t, i, j0 - 1) \o r[j0] \o f[m[j0]]
    IN  f[1]

\* Array.prototype.join
RECURSIVE Join(_, _)
Join(parts, sep) ==
    IF Len(parts) = 0 THEN << >>
    ELSE IF Len(parts) = 1 THEN parts[1]
    ELSE parts[1] \o sep \o Join(Tail(parts), sep)

\* String.prototype.split on a one-character separator
Split(t, sep) ==
    LET n == Len(t)
        f[i \in 1..(n + 1)] ==
            LET e == SpanNotIn(t, i, {sep})
            IN  IF e > n THEN <<SubSeq(t, i, n)>>
                ELSE <<SubSeq(t, i, e - 1)>> \o f[e + 1]
    IN  f[1]

\* ------------------------------------------------------------------------
\* Locale detector
\* ------------------------------------------------------------------------

\* the branch of countChars' if / else-if chain that a code point takes
Bucket(code) ==
    IF code >= 1024 /\ code <= 1279 THEN "cyrillic"
    ELSE IF code >= 19968 /\ code <= 40959 THEN "cjk"
    ELSE IF code >= 12352 /\ code <= 12543 THEN "hiraganaKatakana"
    ELSE IF code \in {224, 226, 231, 233, 232, 234, 235, 239, 238, 244, 249,
                       251, 252, 255, 339, 230, 192, 194, 199, 201, 200, 202,
                       203, 207, 206, 212, 217, 219, 220, 376, 338, 198}
         THEN "french"
    ELSE IF (code >= 65 /\ code <= 90) \/ (code >= 97 /\ code <= 122) THEN "latin"
    ELSE "none"

CountOf(t, b) == Cardinality({i \in 1..Len(t) : Bucket(t[i]) = b})

countChars(t) ==
    [ cyrillic         |-> CountOf(t, "cyrillic"),
      cjk              |-> CountOf(t, "cjk"),
      hiraganaKatakana |-> CountOf(t, "hiraganaKatakana"),
      french           |-> CountOf(t, "french"),
      latin            |-> CountOf(t, "latin"),
      total            |-> Cardinality({i \in 1..Len(t) : Bucket(t[i]) # "none"}) ]

\* detectLocale with the ideograph test placed before the kana test
detectLocaleCjkFirst(t) ==
    IF countChars(t).total = 0 THEN "en"
    ELSE IF countChars(t).cjk * 5 > countChars(t).total THEN "zh"
    ELSE IF countChars(t).hiraganaKatakana * 20 > countChars(t).total THEN "ja"
    ELSE IF countChars(t).cyrillic * 5 > countChars(t).total THEN "ru"
    ELSE "en"

\* The ratio tests are floating-point divisions of two small integers
\* compared with 0.05, 0.2 and 0.03; for counts this small a / b > p / q
\* holds exactly when a * q > p * b.
detectLocale(t) ==
    LET counts == countChars(t)
    IN  IF counts.total = 0 THEN "en"
        ELSE IF counts.hiraganaKatakana * 20 > counts.total THEN "ja"
        ELSE IF counts.cjk * 5 > counts.total THEN "zh"
        ELSE IF counts.cyrillic * 5 > counts.total THEN "ru"
        ELSE IF /\ counts.french > 0
                /\ counts.latin > 0
                /\ counts.french * 100 > 3 * (counts.latin + counts.french)
             THEN "fr"
        \* /\s[;:!?]/.test(text) && counts.latin > 0
        ELSE IF /\ \E i \in 1..(Len(t) - 1) :
                      t[i] \in WS /\ t[i + 1] \in {59, 58, 33, 63}
                /\ counts.latin > 0
             THEN "fr"
        ELSE "en"

\* ------------------------------------------------------------------------
\* Protected-range finder
\* ------------------------------------------------------------------------

\* Each XxxEnd(t, i) is the index just past the match of the pattern that
\* starts at index i, or 0 when the pattern does not match at i.

\* /https?:\/\/[^\s<>\"'«»„"]+/
UrlEnd(t, i) ==
    LET rest(body, e) == IF body > 0 /\ e > body THEN e ELSE 0
        from(body) == rest(body, SpanNotIn(t, body, WS \cup {60, 62, 34, 39, 171, 187, 8222}))
    IN  from(IF LitAt(t, i, <<104, 116, 116, 112, 115, 58, 47, 47>>) THEN i + 8
             ELSE IF LitAt(t, i, <<104, 116, 116, 112, 58, 47, 47>>) THEN i + 7
             ELSE 0)

\* /[\w.+-]+@[\w.-]+\.\w{2,}/ : the domain part gives characters back until
\* a dot followed by at least two word characters is found
EmailEnd(t, i) ==
    LET \* the dots of the domain part that two word characters follow
        ks(dom, de) == {k \in (dom + 1)..(de - 1) :
                            t[k] = 46 /\ SpanIn(t, k + 1, WORD) >= k + 3}
        last(S) == IF S = {} THEN 0
                   ELSE SpanIn(t, (CHOOSE k \in S : \A j \in S : j <= k) + 1, WORD)
        domain(at) == IF at > i /\ at <= Len(t) /\ t[at] = 64
                      THEN last(ks(at + 1, SpanIn(t, at + 1, WORD \cup {46, 45})))
                      ELSE 0
    IN  domain(SpanIn(t, i, WORD \cup {46, 43, 45}))

\* \d{1,3} that must be followed by something that is not a digit
Digits13End(t, i) ==
    LET upTo(e) == IF e > i /\ e - i <= 3 THEN e ELSE 0
    IN  upTo(SpanIn(t, i, DIGIT))

\* /\b\d{1,3}\.\d{1,3}\.\d{1,3}\.\d{1,3}\b/
IpEnd(t, i) ==
    LET next(e) == IF e > 0 /\ LitAt(t, e, <<46>>) THEN Digits13End(t, e + 1) ELSE 0
        bounded(e4) == IF i <= Len(t) /\ WordBoundary(t, i) /\ e4 > 0 /\ WordBoundary(t, e4)
                       THEN e4 ELSE 0
    IN  bounded(next(next(next(Digits13End(t, i)))))

\* \d+ followed by a dot and \d+ : index just past the second number, or 0
DotNumEnd(t, e) ==
    LET number(d) == IF d > e + 1 THEN d ELSE 0
    IN  IF e > 0 /\ LitAt(t, e, <<46>>) THEN number(SpanIn(t, e + 1, DIGIT)) ELSE 0

\* /\bv?\d+\.\d+\.\d+(?:\.\d+)?\b/
VersionEnd(t, i) ==
    LET number(s, e) == IF e > s THEN e ELSE 0
        first(s) == number(s, SpanIn(t, s, DIGIT))
        \* e3 ends the third number, e4 the optional fourth
        pick(e3, e4) == IF i > Len(t) \/ ~WordBoundary(t, i) \/ e3 = 0 THEN 0
                        ELSE IF e4 > 0 /\ WordBoundary(t, e4) THEN e4
                        ELSE IF WordBoundary(t, e3) THEN e3
                        ELSE 0
        optional(e3) == pick(e3, DotNumEnd(t, e3))
    IN  optional(DotNumEnd(t, DotNumEnd(t,
            first(IF i <= Len(t) /\ t[i] = 118 THEN i + 1 ELSE i))))

\* /\b0x[0-9a-fA-F]+\b/
HexEnd(t, i) ==
    LET bounded(e) == IF /\ WordBoundary(t, i)
                         /\ LitAt(t, i, <<48, 120>>)
                         /\ e > i + 2
                         /\ WordBoundary(t, e)
                      THEN e ELSE 0
    IN  bounded(SpanIn(t, i + 2, (48..57) \cup (97..102) \cup (65..70)))

\* number of entries of PROTECTED_PATTERNS
NPATTERNS == 5

\* PROTECTED_PATTERNS[p] matched at index i
PatternEnd(p, t, i) ==
    IF p = 1 THEN UrlEnd(t, i)
    ELSE IF p = 2 THEN EmailEnd(t, i)
    ELSE IF p = 3 THEN IpEnd(t, i)
    ELSE IF p = 4 THEN VersionEnd(t, i)
    ELSE HexEnd(t, i)

\* exec that leaves lastIndex at the start of the match it found
ExecAtIndex(p, t, li) ==
    LET at(j0) == [found |-> TRUE, index |-> j0 - 1,
                   end |-> PatternEnd(p, t, j0) - 1, lastIndex |-> j0 - 1]
        leftmost(starts) ==
            IF starts = {} THEN [found |-> FALSE, index |-> 0, end |-> 0, lastIndex |-> 0]
            ELSE at(CHOOSE j \in starts : \A k \in starts : j <= k)
    IN  leftmost({j \in (li + 1)..Len(t) : PatternEnd(p, t, j) > 0})

\* exec that leaves lastIndex where it was when it finds no match
ExecKeepingLastIndex(p, t, li) ==
    LET at(j0) == [found |-> TRUE, index |-> j0 - 1,
                   end |-> PatternEnd(p, t, j0) - 1,
                   lastIndex |-> PatternEnd(p, t, j0) - 1]
        leftmost(starts) ==
            IF starts = {} THEN [found |-> FALSE, index |-> 0, end |-> 0, lastIndex |-> li]
            ELSE at(CHOOSE j \in starts : \A k \in starts : j <= k)
    IN  leftmost({j \in (li + 1)..Len(t) : PatternEnd(p, t, j) > 0})

\* RegExp.prototype.exec of a global pattern whose lastIndex is li (0-based):
\* the leftmost match at or after li as [index, end) with 0-based offsets
\* and the new lastIndex; no match gives found = FALSE and lastIndex 0.
Exec(p, t, li) ==
    LET match(j0, e) == [found |-> TRUE, index |-> j0 - 1, end |-> e - 1,
                         lastIndex |-> e - 1]
        at(j0) == match(j0, PatternEnd(p, t, j0))
        leftmost(starts) ==
            IF starts = {} THEN [found |-> FALSE, index |-> 0, end |-> 0, lastIndex |-> 0]
            ELSE at(CHOOSE j \in starts : \A k \in starts : j <= k)
    IN  leftmost({j \in (li + 1)..Len(t) : PatternEnd(p, t, j) > 0})

\* the while loop of findProtectedRanges for one pattern, entered with the
\* pattern's lastIndex equal to li
RECURSIVE ExecLoop(_, _, _)
ExecLoop(p, t, li) ==
    LET push(m) == IF m.found THEN <<<<m.index, m.end>>>> \o ExecLoop(p, t, m.lastIndex)
                   ELSE << >>
    IN  push(Exec(p, t, li))

\* Array.prototype.sort((a, b) => a[0] - b[0]), which is stable
RECURSIVE InsertByStart(_, _)
InsertByStart(sorted, x) ==
    IF Len(sorted) = 0 THEN <<x>>
    ELSE IF sorted[Len(sorted)][1] <= x[1] THEN Append(sorted, x)
    ELSE Append(InsertByStart(SubSeq(sorted, 1, Len(sorted) - 1), x), sorted[Len(sorted)])

RECURSIVE SortByStart(_)
SortByStart(rs) ==
    IF Len(rs) = 0 THEN << >>
    ELSE InsertByStart(SortByStart(SubSeq(rs, 1, Len(rs) - 1)), rs[Len(rs)])

\* findProtectedRanges: every pattern's lastIndex is reset to 0 before its
\* loop, so the result does not depend on the lastIndex values found
findProtectedRanges(t) ==
    SortByStart(ExecLoop(1, t, 0) \o ExecLoop(2, t, 0) \o ExecLoop(3, t, 0)
                  \o ExecLoop(4, t, 0) \o ExecLoop(5, t, 0))

\* isProtected that finds no position protected
isProtectedNever(pos, ranges) == FALSE

isProtected(pos, ranges) ==
    \E k \in 1..Len(ranges) : pos >= ranges[k][1] /\ pos < ranges[k][2]

\* ------------------------------------------------------------------------
\* Rules.  Each rule is the apply function of its defineRule object: a text
\* (and, where the source reads ctx, the protected ranges) to a text.
\* ------------------------------------------------------------------------

\* text.replace(/w/g, r) for a literal w
ReplaceLit(t, w, r) ==
    ReplaceAll(t, [i \in 1..Len(t) |-> IF LitAt(t, i, w) THEN i + Len(w) ELSE 0],
                  [i \in 1..Len(t) |-> r])

\* text.replace(/w/gi, r) for a literal w
ReplaceLitI(t, w, r) ==
    ReplaceAll(t, [i \in 1..Len(t) |-> IF LitAtI(t, i, w) THEN i + Len(w) ELSE 0],
                  [i \in 1..Len(t) |-> r])

\* text.replace(/c{2,}/g, r) for a character c
ReplaceRuns(t, c, r) ==
    ReplaceAll(t, [i \in 1..Len(t) |->
                      IF SpanIn(t, i, {c}) >= i + 2 THEN SpanIn(t, i, {c}) ELSE 0],
                  [i \in 1..Len(t) |-> r])

\* the alternatives of (w1|w2|...) that occur at index i, by position in the
\* list; the regular expression takes the first one that lets the rest of
\* the pattern match
Alts(t, i, words) == {k \in 1..Len(words) : LitAt(t, i, words[k])}
AltsI(t, i, words) == {k \in 1..Len(words) : LitAtI(t, i, words[k])}
MinOf(S) == CHOOSE k \in S : \A j \in S : k <= j

\* ---- rules/common/index.ts

\* /\(c\)/gi -> (c) sign, /\(r\)/gi -> (r) sign, /\(tm\)/gi -> trade mark sign
specialSymbols(t) ==
    ReplaceLitI(ReplaceLitI(ReplaceLitI(t, <<40, 99, 41>>, <<169>>),
                            <<40, 114, 41>>, <<174>>),
                <<40, 116, 109, 41>>, <<8482>>)

\* /\.{2,}/g -> horizontal ellipsis
ellipsis(t) == ReplaceRuns(t, 46, <<8230>>)

\* /\s*a+\s*b+/g -> '?!' , used with (a, b) = ('!', '?') and ('?', '!')
ReplaceMixedMarks(t, a, b) ==
    ReplaceAll(t, [i \in 1..Len(t) |->
                      LET s1 == SpanIn(t, i, WS)
                          s2 == SpanIn(t, s1, {a})
                          s3 == SpanIn(t, s2, WS)
                          s4 == SpanIn(t, s3, {b})
                      IN  IF s2 > s1 /\ s4 > s3 THEN s4 ELSE 0],
                  [i \in 1..Len(t) |-> <<63, 33>>])

\* /\s*!+\s*\?+/g and /\s*\?+\s*!+/g -> '?!', then /([?!,;:])\1+/g -> $1
duplicatePunctuation(t) ==
    LET u == ReplaceMixedMarks(ReplaceMixedMarks(t, 33, 63), 63, 33)
    IN  ReplaceAll(u, [i \in 1..Len(u) |->
                          IF u[i] \in {63, 33, 44, 59, 58} /\ SpanIn(u, i, {u[i]}) >= i + 2
                          THEN SpanIn(u, i, {u[i]}) ELSE 0],
                      [i \in 1..Len(u) |-> <<u[i]>>])

\* ---- rules/common/orphan.ts

\* String.prototype.trimEnd
trimEnd(t) ==
    LET ks == {k \in 1..Len(t) : t[k] \notin WS}
    IN  IF ks = {} THEN << >>
        ELSE SubSeq(t, 1, CHOOSE k \in ks : \A j \in ks : j <= k)

\* the callback of nbspOrphan's map over the lines
OrphanLine(line) ==
    LET trimmed    == trimEnd(line)
        trailingWs == SubSeq(line, Len(trimmed) + 1, Len(line))
        tokens     == Split(trimmed, 32)
        n          == Len(tokens)
        tail       == SubSeq(tokens, n - 1, n)
        rest       == SubSeq(tokens, 1, n - 2)
    IN  IF n < 3 THEN line
        ELSE Join(rest, <<32>>) \o <<32>> \o Join(tail, <<160>>) \o trailingWs

\* nbspOrphan that joins the last two tokens of every line of two or more
nbspOrphanFromTwo(t) ==
    Join([k \in 1..Len(Split(t, 10)) |->
            IF Len(Split(trimEnd(Split(t, 10)[k]), 32)) = 2
            THEN Join(Split(trimEnd(Split(t, 10)[k]), 32), <<160>>)
                   \o SubSeq(Split(t, 10)[k], Len(trimEnd(Split(t, 10)[k])) + 1,
                             Len(Split(t, 10)[k]))
            ELSE OrphanLine(Split(t, 10)[k])], <<10>>)

nbspOrphan(t) ==
    LET lines == Split(t, 10)
    IN  Join([k \in 1..Len(lines) |-> OrphanLine(lines[k])], <<10>>)


\* ---- rules/ru/case.ts

\* Object.keys(ABBREVIATIONS) of case.ts, in insertion order
ABBREVIATIONS_CASE_KEYS ==
    << <<1089, 1089, 1089, 1088>>,
       <<1075, 1086, 1089, 1090>>,
       <<1089, 1096, 1072>>,
       <<1088, 1092>>,
       <<1089, 1085, 1075>>,
       <<1086, 1086, 1086>>,
       <<1087, 1072, 1086>>,
       <<1079, 1072, 1086>>,
       <<1086, 1072, 1086>>,
       <<1089, 1084, 1089>>,
       <<99, 118, 118>>,
       <<99, 118, 99>>,
       <<113, 114, 45, 1082, 1086, 1076>>,
       <<1087, 1080, 1085, 45, 1082, 1086, 1076>>,
       <<119, 105, 45, 102, 105>>,
       <<1092, 1075, 1086, 1089>>,
       <<1084, 1074, 1076>>,
       <<1092, 1089, 1073>>,
       <<1075, 1080, 1073, 1076, 1076>>,
       <<1084, 1095, 1089>>,
       <<1092, 1085, 1089>>,
       <<1085, 1076, 1089>>,
       <<1085, 1082, 1086>>,
       <<1080, 1087>>,
       <<1080, 1085, 1085>>,
       <<1086, 1075, 1088, 1085>>,
       <<1082, 1087, 1087>>,
       <<117, 114, 108>>,
       <<97, 112, 105>>,
       <<104, 116, 109, 108>>,
       <<99, 115, 115>>,
       <<112, 100, 102>>,
       <<117, 115, 98>>,
       <<104, 100, 109, 105>>,
       <<114, 97, 109>>,
       <<115, 115, 100>>,
       <<104, 100, 100>>,
       <<100, 112, 105>>,
       <<102, 112, 115>> >>
\* the values of ABBREVIATIONS of case.ts, in the same order
ABBREVIATIONS_CASE_VALUES ==
    << <<1057, 1057, 1057, 1056>>,
       <<1043, 1054, 1057, 1058>>,
       <<1057, 1064, 1040>>,
       <<1056, 1060>>,
       <<1057, 1053, 1043>>,
       <<1054, 1054, 1054>>,
       <<1055, 1040, 1054>>,
       <<1047, 1040, 1054>>,
       <<1054, 1040, 1054>>,
       <<1057, 1052, 1057>>,
       <<67, 86, 86>>,
       <<67, 86, 67>>,
       <<81, 82, 45, 1082, 1086, 1076>>,
       <<1055, 1048, 1053, 45, 1082, 1086, 1076>>,
       <<87, 105, 45, 70, 105>>,
       <<1060, 1043, 1054, 1057>>,
       <<1052, 1042, 1044>>,
       <<1060, 1057, 1041>>,
       <<1043, 1048, 1041, 1044, 1044>>,
       <<1052, 1063, 1057>>,
       <<1060, 1053, 1057>>,
       <<1053, 1044, 1057>>,
       <<1053, 1050, 1054>>,
       <<1048, 1055>>,
       <<1048, 1053, 1053>>,
       <<1054, 1043, 1056, 1053>>,
       <<1050, 1055, 1055>>,
       <<85, 82, 76>>,
       <<65, 80, 73>>,
       <<72, 84, 77, 76>>,
       <<67, 83, 83>>,
       <<80, 68, 70>>,
       <<85, 83, 66>>,
       <<72, 68, 77, 73>>,
       <<82, 65, 77>>,
       <<83, 83, 68>>,
       <<72, 68, 68>>,
       <<68, 80, 73>>,
       <<70, 80, 83>> >>

\* [а-яА-ЯёЁa-zA-Z] and [А-ЯЁA-Z]
LETTER == CYR \cup (65..90) \cup (97..122)

ruFixCase(t) ==
    LET letters == Cardinality({i \in 1..Len(t) : t[i] \in LETTER})
        uppercaseLetters == Cardinality({i \in 1..Len(t) : t[i] \in ((1040..1071) \cup {1025} \cup (65..90))})
        \* text.toLowerCase(), then the first character upper-cased
        low == [i \in 1..Len(t) |-> toLowerCase(t[i])]
        cap == [i \in 1..Len(t) |-> IF i = 1 THEN toUpperCase(low[1]) ELSE low[i]]
        \* /([.!?…]\s+)([а-яёa-z])/g
        sEnd(i) == SpanIn(cap, i + 1, WS)
        sent == ReplaceAll(cap,
                  [i \in 1..Len(cap) |->
                      IF /\ cap[i] \in {46, 33, 63, 8230}
                         /\ sEnd(i) > i + 1
                         /\ sEnd(i) <= Len(cap)
                         /\ cap[sEnd(i)] \in (1072..1103) \cup {1105} \cup (97..122)
                      THEN sEnd(i) + 1 ELSE 0],
                  [i \in 1..Len(cap) |->
                      SubSeq(cap, i, sEnd(i) - 1) \o <<toUpperCase(cap[sEnd(i)])>>])
        \* /\b(key1|key2|...)\b/gi
        ks(i) == {k \in AltsI(sent, i, ABBREVIATIONS_CASE_KEYS) :
                      WordBoundary(sent, i + Len(ABBREVIATIONS_CASE_KEYS[k]))}
    IN  IF letters < 20 THEN t
        ELSE IF uppercaseLetters * 10 < 7 * letters THEN t
        ELSE ReplaceAll(sent,
               [i \in 1..Len(sent) |->
                   IF WordBoundary(sent, i) /\ ks(i) # {}
                   THEN i + Len(ABBREVIATIONS_CASE_KEYS[MinOf(ks(i))]) ELSE 0],
               [i \in 1..Len(sent) |-> ABBREVIATIONS_CASE_VALUES[MinOf(ks(i))]])

\* ---- rules/ru/yo.ts

\* effectiveEntries of yo.ts: the keys of YO_DICTIONARY whose value differs
YO_FROM ==
    << <<1077, 1097, 1077>>,
       <<1084, 1086, 1077, 1084>>,
       <<1090, 1074, 1086, 1077, 1084>>,
       <<1089, 1074, 1086, 1077, 1084>>,
       <<1095, 1077, 1084>>,
       <<1077, 1083, 1082, 1072>>,
       <<1077, 1083, 1082, 1080>>,
       <<1077, 1083, 1082, 1091>>,
       <<1077, 1083, 1082, 1086, 1081>>,
       <<1077, 1083, 1082, 1077>>,
       <<1077, 1083, 1086, 1082>>,
       <<1077, 1083, 1086, 1095, 1082, 1072>>,
       <<1077, 1083, 1086, 1095, 1082, 1080>>,
       <<1077, 1083, 1086, 1095, 1082, 1091>>,
       <<1084, 1077, 1076>>,
       <<1084, 1077, 1076, 1072>>,
       <<1084, 1077, 1076, 1086, 1084>>,
       <<1083, 1077, 1076>>,
       <<1083, 1077, 1085>>,
       <<1096, 1077, 1083>>,
       <<1079, 1077, 1083, 1077, 1085, 1099, 1081>>,
       <<1079, 1077, 1083, 1077, 1085, 1072, 1103>>,
       <<1079, 1077, 1083, 1077, 1085, 1086, 1077>>,
       <<1079, 1077, 1083, 1077, 1085, 1099, 1077>>,
       <<1095, 1077, 1088, 1085, 1099, 1081>>,
       <<1095, 1077, 1088, 1085, 1072, 1103>>,
       <<1095, 1077, 1088, 1085, 1086, 1077>>,
       <<1095, 1077, 1088, 1085, 1099, 1077>>,
       <<1078, 1077, 1083, 1090, 1099, 1081>>,
       <<1078, 1077, 1083, 1090, 1072, 1103>>,
       <<1078, 1077, 1083, 1090, 1086, 1077>>,
       <<1078, 1077, 1083, 1090, 1099, 1077>>,
       <<1090, 1077, 1084, 1085, 1099, 1081>>,
       <<1090, 1077, 1084, 1085, 1072, 1103>>,
       <<1090, 1077, 1084, 1085, 1086, 1077>>,
       <<1090, 1077, 1084, 1085, 1099, 1077>>,
       <<1088, 1077, 1073, 1077, 1085, 1086, 1082>>,
       <<1088, 1077, 1073, 1077, 1085, 1082, 1072>>,
       <<1088, 1077, 1073, 1077, 1085, 1082, 1091>>,
       <<1088, 1077, 1073, 1077, 1085, 1082, 1086, 1084>>,
       <<1087, 1088, 1080, 1077, 1084>>,
       <<1087, 1088, 1080, 1077, 1084, 1072>>,
       <<1087, 1088, 1080, 1077, 1084, 1091>>,
       <<1087, 1088, 1080, 1077, 1084, 1086, 1084>>,
       <<1087, 1086, 1076, 1098, 1077, 1084>>,
       <<1087, 1086, 1076, 1098, 1077, 1084, 1072>>,
       <<1091, 1095, 1077, 1090>>,
       <<1091, 1095, 1077, 1090, 1072>>,
       <<1091, 1095, 1077, 1090, 1086, 1084>>,
       <<1091, 1095, 1077, 1085, 1099, 1081>>,
       <<1091, 1095, 1077, 1085, 1086, 1075, 1086>>,
       <<1088, 1072, 1089, 1095, 1077, 1090>>,
       <<1088, 1072, 1089, 1095, 1077, 1090, 1072>>,
       <<1088, 1072, 1089, 1095, 1077, 1090, 1086, 1084>>,
       <<1089, 1095, 1077, 1090>>,
       <<1089, 1095, 1077, 1090, 1072>>,
       <<1087, 1086, 1083, 1077, 1090>>,
       <<1087, 1086, 1083, 1077, 1090, 1072>>,
       <<1089, 1072, 1084, 1086, 1083, 1077, 1090>>,
       <<1089, 1072, 1084, 1086, 1083, 1077, 1090, 1072>>,
       <<1090, 1088, 1077, 1093>>,
       <<1090, 1088, 1077, 1093, 1082, 1086, 1084, 1085, 1072, 1090, 1085, 1099, 1081>>,
       <<1095, 1077, 1090, 1099, 1088, 1077, 1093>>,
       <<1080, 1076, 1077, 1090>>,
       <<1087, 1086, 1081, 1076, 1077, 1090>>,
       <<1085, 1072, 1081, 1076, 1077, 1090>>,
       <<1076, 1072, 1077, 1090>>,
       <<1079, 1072, 1076, 1072, 1077, 1090>>,
       <<1087, 1077, 1088, 1077, 1076, 1072, 1077, 1090>>,
       <<1073, 1077, 1088, 1077, 1090>>,
       <<1085, 1077, 1089, 1077, 1090>>,
       <<1074, 1077, 1076, 1077, 1090>>,
       <<1074, 1077, 1079, 1077, 1090>>,
       <<1090, 1077, 1095, 1077, 1090>>,
       <<1087, 1077, 1095, 1077, 1090>>,
       <<1078, 1078, 1077, 1090>>,
       <<1078, 1091, 1077, 1090>>,
       <<1082, 1083, 1102, 1077, 1090>>,
       <<1087, 1086, 1077, 1090>>,
       <<1087, 1088, 1080, 1096, 1077, 1083>>,
       <<1091, 1096, 1077, 1083>>,
       <<1085, 1072, 1096, 1077, 1083>>,
       <<1079, 1072, 1096, 1077, 1083>>,
       <<1074, 1099, 1096, 1077, 1083>>,
       <<1087, 1086, 1076, 1086, 1096, 1077, 1083>>,
       <<1087, 1077, 1088, 1077, 1096, 1077, 1083>>,
       <<1086, 1073, 1086, 1096, 1077, 1083>> >>
\* effectiveEntries of yo.ts: the values, in the same order
YO_TO ==
    << <<1077, 1097, 1105>>,
       <<1084, 1086, 1105, 1084>>,
       <<1090, 1074, 1086, 1105, 1084>>,
       <<1089, 1074, 1086, 1105, 1084>>,
       <<1095, 1105, 1084>>,
       <<1105, 1083, 1082, 1072>>,
       <<1105, 1083, 1082, 1080>>,
       <<1105, 1083, 1082, 1091>>,
       <<1105, 1083, 1082, 1086, 1081>>,
       <<1105, 1083, 1082, 1077>>,
       <<1105, 1083, 1086, 1082>>,
       <<1105, 1083, 1086, 1095, 1082, 1072>>,
       <<1105, 1083, 1086, 1095, 1082, 1080>>,
       <<1105, 1083, 1086, 1095, 1082, 1091>>,
       <<1084, 1105, 1076>>,
       <<1084, 1105, 1076, 1072>>,
       <<1084, 1105, 1076, 1086, 1084>>,
       <<1083, 1105, 1076>>,
       <<1083, 1105, 1085>>,
       <<1096, 1105, 1083>>,
       <<1079, 1077, 1083, 1105, 1085, 1099, 1081>>,
       <<1079, 1077, 1083, 1105, 1085, 1072, 1103>>,
       <<1079, 1077, 1083, 1105, 1085, 1086, 1077>>,
       <<1079, 1077, 1083, 1105, 1085, 1099, 1077>>,
       <<1095, 1105, 1088, 1085, 1099, 1081>>,
       <<1095, 1105, 1088, 1085, 1072, 1103>>,
       <<1095, 1105, 1088, 1085, 1086, 1077>>,
       <<1095, 1105, 1088, 1085, 1099, 1077>>,
       <<1078, 1105, 1083, 1090, 1099, 1081>>,
       <<1078, 1105, 1083, 1090, 1072, 1103>>,
       <<1078, 1105, 1083, 1090, 1086, 1077>>,
       <<1078, 1105, 1083, 1090, 1099, 1077>>,
       <<1090, 1105, 1084, 1085, 1099, 1081>>,
       <<1090, 1105, 1084, 1085, 1072, 1103>>,
       <<1090, 1105, 1084, 1085, 1086, 1077>>,
       <<1090, 1105, 1084, 1085, 1099, 1077>>,
       <<1088, 1077, 1073, 1105, 1085, 1086, 1082>>,
       <<1088, 1077, 1073, 1105, 1085, 1082, 1072>>,
       <<1088, 1077, 1073, 1105, 1085, 1082, 1091>>,
       <<1088, 1077, 1073, 1105, 1085, 1082, 1086, 1084>>,
       <<1087, 1088, 1080, 1105, 1084>>,
       <<1087, 1088, 1080, 1105, 1084, 1072>>,
       <<1087, 1088, 1080, 1105, 1084, 1091>>,
       <<1087, 1088, 1080, 1105, 1084, 1086, 1084>>,
       <<1087, 1086, 1076, 1098, 1105, 1084>>,
       <<1087, 1086, 1076, 1098, 1105, 1084, 1072>>,
       <<1091, 1095, 1105, 1090>>,
       <<1091, 1095, 1105, 1090, 1072>>,
       <<1091, 1095, 1105, 1090, 1086, 1084>>,
       <<1091, 1095, 1105, 1085, 1099, 1081>>,
       <<1091, 1095, 1105, 1085, 1086, 1075, 1086>>,
       <<1088, 1072, 1089, 1095, 1105, 1090>>,
       <<1088, 1072, 1089, 1095, 1105, 1090, 1072>>,
       <<1088, 1072, 1089, 1095, 1105, 1090, 1086, 1084>>,
       <<1089, 1095, 1105, 1090>>,
       <<1089, 1095, 1105, 1090, 1072>>,
       <<1087, 1086, 1083, 1105, 1090>>,
       <<1087, 1086, 1083, 1105, 1090, 1072>>,
       <<1089, 1072, 1084, 1086, 1083, 1105, 1090>>,
       <<1089, 1072, 1084, 1086, 1083, 1105, 1090, 1072>>,
       <<1090, 1088, 1105, 1093>>,
       <<1090, 1088, 1105, 1093, 1082, 1086, 1084, 1085, 1072, 1090, 1085, 1099, 1081>>,
       <<1095, 1077, 1090, 1099, 1088, 1105, 1093>>,
       <<1080, 1076, 1105, 1090>>,
       <<1087, 1086, 1081, 1076, 1105, 1090>>,
       <<1085, 1072, 1081, 1076, 1105, 1090>>,
       <<1076, 1072, 1105, 1090>>,
       <<1079, 1072, 1076, 1072, 1105, 1090>>,
       <<1087, 1077, 1088, 1077, 1076, 1072, 1105, 1090>>,
       <<1073, 1077, 1088, 1105, 1090>>,
       <<1085, 1077, 1089, 1105, 1090>>,
       <<1074, 1077, 1076, 1105, 1090>>,
       <<1074, 1077, 1079, 1105, 1090>>,
       <<1090, 1077, 1095, 1105, 1090>>,
       <<1087, 1077, 1095, 1105, 1090>>,
       <<1078, 1078, 1105, 1090>>,
       <<1078, 1091, 1105, 1090>>,
       <<1082, 1083, 1102, 1105, 1090>>,
       <<1087, 1086, 1105, 1090>>,
       <<1087, 1088, 1080, 1096, 1105, 1083>>,
       <<1091, 1096, 1105, 1083>>,
       <<1085, 1072, 1096, 1105, 1083>>,
       <<1079, 1072, 1096, 1105, 1083>>,
       <<1074, 1099, 1096, 1105, 1083>>,
       <<1087, 1086, 1076, 1086, 1096, 1105, 1083>>,
       <<1087, 1077, 1088, 1077, 1096, 1105, 1083>>,
       <<1086, 1073, 1086, 1096, 1105, 1083>> >>

\* text.replace(/(?<![а-яА-ЯёЁ])from(?![а-яА-ЯёЁ])/g, to)
ReplaceCyrWord(t, from, to) ==
    ReplaceAll(t,
      [i \in 1..Len(t) |->
          IF /\ LitAt(t, i, from)
             /\ (i = 1 \/ t[i - 1] \notin CYR)
             /\ (i + Len(from) > Len(t) \/ t[i + Len(from)] \notin CYR)
          THEN i + Len(from) ELSE 0],
      [i \in 1..Len(t) |-> to])

\* a word with its first character upper-cased
Capitalize(w) == <<toUpperCase(w[1])>> \o Tail(w)

\* the body of ruYo's loop for the k-th entry
YoEntry(t, k) ==
    LET a == ReplaceCyrWord(t, YO_FROM[k], YO_TO[k])
    IN  IF Capitalize(YO_FROM[k]) # Capitalize(YO_TO[k])
        THEN ReplaceCyrWord(a, Capitalize(YO_FROM[k]), Capitalize(YO_TO[k]))
        ELSE a

\* the loop of ruYo over the entries lo..hi, in order.  The loop is split in
\* two halves, and the test on Len makes the first half complete before the
\* second starts: both keep the evaluation shallow.
RECURSIVE YoFrom(_, _, _)
YoFrom(t, lo, hi) ==
    IF lo > hi THEN t
    ELSE IF lo = hi THEN YoEntry(t, lo)
    ELSE LET mid == (lo + hi) \div 2
             half == YoFrom(t, lo, mid)
         IN  IF Len(half) = Len(t) THEN YoFrom(half, mid + 1, hi) ELSE half

ruYo(t) == YoFrom(t, 1, Len(YO_FROM))

\* ---- rules/ru/quotes.ts

\* a normalization that removes the guillemets instead of replacing them
NormalizeQuotesWithoutGuillemets(t) ==
    LET keep == {i \in 1..Len(t) : t[i] \notin {171, 187}}
        nth(k) == CHOOSE i \in keep : Cardinality({j \in keep : j < i}) = k - 1
    IN  [k \in 1..Cardinality(keep) |->
           IF t[nth(k)] \in {8222, 34, 8220, 8221} THEN 34 ELSE t[nth(k)]]

\* result.replace(/[«»„"""“”„]/g, '"')
NormalizeQuotes(t) ==
    [i \in 1..Len(t) |-> IF t[i] \in {171, 187, 8222, 34, 8220, 8221} THEN 34 ELSE t[i]]

\* QuoteIsOpening without the brackets in the class of the test
QuoteIsOpeningAfterSpace(chars, i) ==
    LET before == IF i > 0 THEN chars[i] ELSE 32
    IN  before \in WS \/ i = 0

\* One iteration of the scan loop of ruQuotes.apply over chars, at 0-based
\* index st.i with st.depth and st.output as the loop left them.
QuoteIsOpening(chars, i) ==
    LET before == IF i > 0 THEN chars[i] ELSE 32
        isOpening == before \in (WS \cup {40, 91, 123}) \/ i = 0
        isOpeningAfterQuote == before = 171 \/ before = 8222
    IN  isOpening \/ isOpeningAfterQuote

\* QuoteStep whose closing branch decrements depth and never resets it
QuoteStepUnclamped(chars, st) ==
    [i |-> st.i + 1,
     depth |-> IF chars[st.i + 1] # 34 THEN st.depth
               ELSE IF QuoteIsOpening(chars, st.i) THEN st.depth + 1
               ELSE st.depth - 1,
     output |-> Append(st.output,
                  IF chars[st.i + 1] # 34 THEN chars[st.i + 1]
                  ELSE IF QuoteIsOpening(chars, st.i)
                       THEN (IF st.depth = 0 THEN 171 ELSE 8222)
                       ELSE (IF st.depth - 1 <= 0 THEN 187 ELSE 34))]

\* QuoteStep with a glyph of its own for the openers from the third level on
QuoteStepThreeLevels(chars, st) ==
    LET c == chars[st.i + 1]
    IN  IF c = 34
        THEN IF QuoteIsOpening(chars, st.i)
             THEN [i |-> st.i + 1, depth |-> st.depth + 1,
                   output |-> Append(st.output, IF st.depth = 0 THEN 171
                                                ELSE IF st.depth = 1 THEN 8222
                                                ELSE 8218)]
             ELSE IF st.depth - 1 <= 0
                  THEN [i |-> st.i + 1, depth |-> 0, output |-> Append(st.output, 187)]
                  ELSE [i |-> st.i + 1, depth |-> st.depth - 1,
                        output |-> Append(st.output, 34)]
        ELSE [i |-> st.i + 1, depth |-> st.depth, output |-> Append(st.output, c)]

\* QuoteStep whose closing branch chooses the glyph by the value depth has
\* before the decrement
QuoteStepGlyphBeforeDecrement(chars, st) ==
    LET c == chars[st.i + 1]
    IN  IF c = 34
        THEN IF QuoteIsOpening(chars, st.i)
             THEN [i |-> st.i + 1, depth |-> st.depth + 1,
                   output |-> Append(st.output, IF st.depth = 0 THEN 171 ELSE 8222)]
             ELSE IF st.depth <= 0
                  THEN [i |-> st.i + 1, depth |-> 0, output |-> Append(st.output, 187)]
                  ELSE [i |-> st.i + 1, depth |-> st.depth - 1,
                        output |-> Append(st.output, 34)]
        ELSE [i |-> st.i + 1, depth |-> st.depth, output |-> Append(st.output, c)]

QuoteStep(chars, st) ==
    LET c == chars[st.i + 1]
    IN  IF c = 34
        THEN IF QuoteIsOpening(chars, st.i)
             THEN [i |-> st.i + 1, depth |-> st.depth + 1,
                   output |-> Append(st.output, IF st.depth = 0 THEN 171 ELSE 8222)]
             ELSE IF st.depth - 1 <= 0
                  THEN [i |-> st.i + 1, depth |-> 0, output |-> Append(st.output, 187)]
                  ELSE [i |-> st.i + 1, depth |-> st.depth - 1,
                        output |-> Append(st.output, 34)]
        ELSE [i |-> st.i + 1, depth |-> st.depth, output |-> Append(st.output, c)]

RECURSIVE QuoteScan(_, _)
QuoteScan(chars, st) ==
    IF st.i >= Len(chars) THEN st ELSE QuoteScan(chars, QuoteStep(chars, st))

ruQuotes(t) ==
    QuoteScan(NormalizeQuotes(t), [i |-> 0, depth |-> 0, output |-> << >>]).output

\* ---- rules/ru/dashes.ts

\* text.replace(/(S+)\s*-\s*(S+)/g, '$1–$2') for a character class S
ReplaceDashRange(t, S) ==
    LET d1(i) == SpanIn(t, i, S)
        s1(i) == SpanIn(t, d1(i), WS)
        s2(i) == SpanIn(t, s1(i) + 1, WS)
        d2(i) == SpanIn(t, s2(i), S)
    IN  ReplaceAll(t,
          [i \in 1..Len(t) |->
              IF d1(i) > i /\ LitAt(t, s1(i), <<45>>) /\ d2(i) > s2(i)
              THEN d2(i) ELSE 0],
          [i \in 1..Len(t) |->
              SubSeq(t, i, d1(i) - 1) \o <<8211>> \o SubSeq(t, s2(i), d2(i) - 1)])

ruEnDash(t) == ReplaceDashRange(ReplaceDashRange(t, DIGIT), {73, 86, 88, 76, 67, 68, 77})

\* text.replace(/(?<=\S) - (?=\S)/g, r)
ReplacePhraseDash(t, r) ==
    ReplaceAll(t,
      [i \in 1..Len(t) |->
          IF /\ LitAt(t, i, <<32, 45, 32>>)
             /\ i >= 2 /\ t[i - 1] \notin WS
             /\ i + 3 <= Len(t) /\ t[i + 3] \notin WS
          THEN i + 3 ELSE 0],
      [i \in 1..Len(t) |-> r])

ruEmDash(t) == ReplacePhraseDash(t, <<32, 8212, 32>>)


\* ---- rules/ru/spaces.ts

\* SHORT_WORDS of spaces.ts
SHORT_WORDS ==
    << <<1072>>,
       <<1073>>,
       <<1073, 1077, 1079>>,
       <<1073, 1077, 1079, 1086>>,
       <<1073, 1091, 1076, 1090, 1086>>,
       <<1073, 1099>>,
       <<1074>>,
       <<1074, 1086>>,
       <<1074, 1077, 1076, 1100>>,
       <<1074, 1085, 1077>>,
       <<1074, 1086, 1090>>,
       <<1075, 1076, 1077>>,
       <<1076, 1072>>,
       <<1076, 1072, 1078, 1077>>,
       <<1076, 1083, 1103>>,
       <<1076, 1086>>,
       <<1077, 1089, 1083, 1080>>,
       <<1077, 1089, 1090, 1100>>,
       <<1078>>,
       <<1078, 1077>>,
       <<1079, 1072>>,
       <<1080>>,
       <<1080, 1079>>,
       <<1080, 1079, 1086>>,
       <<1080, 1079, 45, 1079, 1072>>,
       <<1080, 1079, 45, 1087, 1086, 1076>>,
       <<1080, 1083, 1080>>,
       <<1080, 1083, 1100>>,
       <<1082>>,
       <<1082, 1086>>,
       <<1082, 1072, 1082>>,
       <<1083, 1080>>,
       <<1083, 1100>>,
       <<1083, 1080, 1073, 1086>>,
       <<1084, 1077, 1078, 1076, 1091>>,
       <<1085, 1072>>,
       <<1085, 1072, 1076>>,
       <<1085, 1072, 1076, 1086>>,
       <<1085, 1077>>,
       <<1085, 1080>>,
       <<1085, 1086>>,
       <<1086>>,
       <<1086, 1073>>,
       <<1086, 1073, 1086>>,
       <<1086, 1082, 1086, 1083, 1086>>,
       <<1086, 1090>>,
       <<1086, 1090, 1086>>,
       <<1087, 1077, 1088, 1077, 1076>>,
       <<1087, 1086>>,
       <<1087, 1086, 45, 1079, 1072>>,
       <<1087, 1086, 45, 1085, 1072, 1076>>,
       <<1087, 1086, 1076>>,
       <<1087, 1086, 1076, 1086>>,
       <<1087, 1086, 1089, 1083, 1077>>,
       <<1087, 1088, 1080>>,
       <<1087, 1088, 1086>>,
       <<1088, 1072, 1076, 1080>>,
       <<1089>>,
       <<1089, 1086>>,
       <<1089, 1082, 1074, 1086, 1079, 1100>>,
       <<1090, 1072, 1082>>,
       <<1090, 1072, 1082, 1078, 1077>>,
       <<1090, 1072, 1084>>,
       <<1090, 1077, 1084>>,
       <<1090, 1086>>,
       <<1090, 1086, 1075, 1076, 1072>>,
       <<1090, 1086, 1075, 1086>>,
       <<1090, 1086, 1078, 1077>>,
       <<1091>>,
       <<1093, 1086, 1090, 1100>>,
       <<1093, 1086, 1090, 1103>>,
       <<1095, 1077, 1075, 1086>>,
       <<1095, 1077, 1088, 1077, 1079>>,
       <<1095, 1090, 1086>>,
       <<1095, 1090, 1086, 1073, 1099>>,
       <<1101, 1090, 1086>> >>

\* ABBREVIATIONS of spaces.ts
ABBREVIATIONS ==
    << <<1075>>,
       <<1086, 1073, 1083>>,
       <<1082, 1088>>,
       <<1089, 1090>>,
       <<1087, 1086, 1089>>,
       <<1089>>,
       <<1076>>,
       <<1091, 1083>>,
       <<1087, 1077, 1088>>,
       <<1087, 1088>>,
       <<1087, 1088, 45, 1090>>,
       <<1087, 1088, 1086, 1089, 1087>>,
       <<1087, 1083>>,
       <<1073, 1091, 1083>>,
       <<1073, 45, 1088>>,
       <<1085, 1072, 1073>>,
       <<1096>>,
       <<1090, 1091, 1087>>,
       <<1086, 1092>>,
       <<1082, 1074>>,
       <<1082, 1086, 1084, 1085>>,
       <<1087, 1086, 1076>>,
       <<1084, 1082, 1088>>,
       <<1091, 1095>>,
       <<1074, 1083>>,
       <<1074, 1083, 1072, 1076>>,
       <<1089, 1090, 1088>>,
       <<1082, 1086, 1088, 1087>>,
       <<1083, 1080, 1090, 1077, 1088>>,
       <<1101, 1090>>,
       <<1087, 1075, 1090>>,
       <<1075, 1083>>,
       <<1088, 1080, 1089>>,
       <<1080, 1083, 1083>>,
       <<1087>>,
       <<99>> >>

\* SYMBOLS of spaces.ts
SYMBOLS ==
    << <<8470>>,
       <<167>>,
       <<1040, 1054>>,
       <<1054, 1040, 1054>>,
       <<1047, 1040, 1054>>,
       <<1054, 1054, 1054>>,
       <<1055, 1040, 1054>> >>

\* text.replace(/(^|S)(w1|w2|...) /gi, '$1$2 ') for a character class S
ReplaceAfterShortWord(t, S, words) ==
    LET alt(j) == {k \in AltsI(t, j, words) : LitAt(t, j + Len(words[k]), <<32>>)}
        \* the two alternatives of (^|S), in the order the engine tries them
        viaStart(i) == IF i = 1 THEN alt(i) ELSE {}
        viaSpace(i) == IF t[i] \in S THEN alt(i + 1) ELSE {}
        e(i) == IF viaStart(i) # {} THEN i + Len(words[MinOf(viaStart(i))])
                ELSE IF viaSpace(i) # {} THEN i + 1 + Len(words[MinOf(viaSpace(i))])
                ELSE 0
    IN  ReplaceAll(t,
          [i \in 1..Len(t) |-> IF e(i) > 0 THEN e(i) + 1 ELSE 0],
          [i \in 1..Len(t) |-> SubSeq(t, i, e(i) - 1) \o <<160>>])

\* ruShortWords.apply with its first replacement alone
ruShortWordsOnePass(t) == ReplaceAfterShortWord(t, WS, SHORT_WORDS)

ruShortWords(t) ==
    LET pass1 == ReplaceAfterShortWord(t, WS, SHORT_WORDS)
        pass2 == ReplaceAfterShortWord(pass1, WS \cup {160}, SHORT_WORDS)
    IN  ReplaceAfterShortWord(pass2, WS \cup {160}, SHORT_WORDS)

\* [А-Я] and [а-яёЁ-]
INITIAL_UPPER == 1040..1071
SURNAME_TAIL == (1072..1103) \cup {1105, 1025, 45}

ruInitials(t) ==
    LET \* /([А-Я]\.)\s*([А-Я]\.)\s+([А-Я][а-яёЁ-]+)/g
        a2(u, i) == SpanIn(u, i + 2, WS)
        a3(u, i) == SpanIn(u, a2(u, i) + 2, WS)
        a4(u, i) == SpanIn(u, a3(u, i) + 1, SURNAME_TAIL)
        isInitial(u, j) == j + 1 <= Len(u) /\ u[j] \in INITIAL_UPPER /\ u[j + 1] = 46
        first == ReplaceAll(t,
                   [i \in 1..Len(t) |->
                       IF /\ isInitial(t, i)
                          /\ isInitial(t, a2(t, i))
                          /\ a3(t, i) > a2(t, i) + 2
                          /\ a3(t, i) <= Len(t)
                          /\ t[a3(t, i)] \in INITIAL_UPPER
                          /\ a4(t, i) > a3(t, i) + 1
                       THEN a4(t, i) ELSE 0],
                   [i \in 1..Len(t) |->
                       <<t[i], 46, t[a2(t, i)], 46, 160>> \o SubSeq(t, a3(t, i), a4(t, i) - 1)])
        \* /([А-Я][а-яёЁ-]+)\s+([А-Я]\.)\s*([А-Я]\.)/g
        b1(u, i) == SpanIn(u, i + 1, SURNAME_TAIL)
        b2(u, i) == SpanIn(u, b1(u, i), WS)
        b3(u, i) == SpanIn(u, b2(u, i) + 2, WS)
    IN  ReplaceAll(first,
          [i \in 1..Len(first) |->
              IF /\ first[i] \in INITIAL_UPPER
                 /\ b1(first, i) > i + 1
                 /\ b2(first, i) > b1(first, i)
                 /\ isInitial(first, b2(first, i))
                 /\ isInitial(first, b3(first, i))
              THEN b3(first, i) + 2 ELSE 0],
          [i \in 1..Len(first) |->
              SubSeq(first, i, b1(first, i) - 1)
                \o <<160, first[b2(first, i)], 46, first[b3(first, i)], 46>>])

\* /\s(и\sт\.д\.|и\sт\.п\.|и\sдр\.)/gi
ruAbbreviationPatterns(t) ==
    LET tails == << <<1090, 46, 1076, 46>>, <<1090, 46, 1087, 46>>, <<1076, 1088, 46>> >>
        ks(i) == AltsI(t, i + 3, tails)
        e(i) == i + 3 + Len(tails[MinOf(ks(i))])
    IN  ReplaceAll(t,
          [i \in 1..Len(t) |->
              IF /\ t[i] \in WS
                 /\ LitAtI(t, i + 1, <<1080>>)
                 /\ i + 2 <= Len(t) /\ t[i + 2] \in WS
                 /\ ks(i) # {}
              THEN e(i) ELSE 0],
          [i \in 1..Len(t) |-> <<160>> \o SubSeq(t, i + 1, e(i) - 1)])

\* /(\d)\s+([а-яА-ЯёЁ§№]+)/g
ruDigitsUnits(t) ==
    LET s(i) == SpanIn(t, i + 1, WS)
        e(i) == SpanIn(t, s(i), CYR \cup {167, 8470})
    IN  ReplaceAll(t,
          [i \in 1..Len(t) |->
              IF t[i] \in DIGIT /\ s(i) > i + 1 /\ e(i) > s(i) THEN e(i) ELSE 0],
          [i \in 1..Len(t) |-> <<t[i], 160>> \o SubSeq(t, s(i), e(i) - 1)])

\* text.replace(/(^|\s)(w1|w2|...)TAIL\s/gi, '$1$2TAIL '), TAIL a literal
ReplaceSpaceAfterWord(t, words, tail) ==
    LET alt(j) == {k \in AltsI(t, j, words) :
                      /\ LitAt(t, j + Len(words[k]), tail)
                      /\ j + Len(words[k]) + Len(tail) <= Len(t)
                      /\ t[j + Len(words[k]) + Len(tail)] \in WS}
        viaStart(i) == IF i = 1 THEN alt(i) ELSE {}
        viaSpace(i) == IF t[i] \in WS THEN alt(i + 1) ELSE {}
        e(i) == IF viaStart(i) # {}
                THEN i + Len(words[MinOf(viaStart(i))]) + Len(tail)
                ELSE IF viaSpace(i) # {}
                THEN i + 1 + Len(words[MinOf(viaSpace(i))]) + Len(tail)
                ELSE 0
    IN  ReplaceAll(t,
          [i \in 1..Len(t) |-> IF e(i) > 0 THEN e(i) + 1 ELSE 0],
          [i \in 1..Len(t) |-> SubSeq(t, i, e(i) - 1) \o <<160>>])

ruBracketSpaces(t) ==
    LET \* /([«„(\[])\s+/g
        s(u, i) == SpanIn(u, i + 1, WS)
        first == ReplaceAll(t,
                   [i \in 1..Len(t) |->
                       IF t[i] \in {171, 8222, 40, 91} /\ s(t, i) > i + 1
                       THEN s(t, i) ELSE 0],
                   [i \in 1..Len(t) |-> <<t[i]>>])
        \* /\s+([.…:,;?!»")\]])/g
        w(u, i) == SpanIn(u, i, WS)
    IN  ReplaceAll(first,
          [i \in 1..Len(first) |->
              IF /\ w(first, i) > i
                 /\ w(first, i) <= Len(first)
                 /\ first[w(first, i)] \in {46, 8230, 58, 44, 59, 63, 33, 187, 34, 41, 93}
              THEN w(first, i) + 1 ELSE 0],
          [i \in 1..Len(first) |-> <<first[w(first, i)]>>])


\* ---- rules/ru/numbers.ts

\* text.replace(/(\d)\s*CODE\b/gi, '$1' + NBSP + sign)
ReplaceCurrencyCode(t, code, sign) ==
    LET s(i) == SpanIn(t, i + 1, WS)
    IN  ReplaceAll(t,
          [i \in 1..Len(t) |->
              IF /\ t[i] \in DIGIT
                 /\ LitAtI(t, s(i), code)
                 /\ WordBoundary(t, s(i) + Len(code))
              THEN s(i) + Len(code) ELSE 0],
          [i \in 1..Len(t) |-> <<t[i], 160, sign>>])

\* text.replace(/(\d)\s*([signs])/g, '$1' + NBSP + '$2')
ReplaceCurrencySign(t, signs) ==
    LET s(i) == SpanIn(t, i + 1, WS)
    IN  ReplaceAll(t,
          [i \in 1..Len(t) |->
              IF t[i] \in DIGIT /\ s(i) <= Len(t) /\ t[s(i)] \in signs
              THEN s(i) + 1 ELSE 0],
          [i \in 1..Len(t) |-> <<t[i], 160, t[s(i)]>>])

ruCurrency(t) ==
    LET RUB == <<1088, 1091, 1073>>
        KOP == <<1082, 1086, 1087>>
        dot(u, j) == IF LitAt(u, j, <<46>>) THEN j + 1 ELSE j
        d1(u, i) == SpanIn(u, i, DIGIT)
        s1(u, i) == SpanIn(u, d1(u, i), WS)
        \* /(\d+)\s*(?:р\.|руб\.?)\s*(\d{1,2})\s*коп\.?/gi
        a1(u, i) == IF LitAtI(u, s1(u, i), <<1088>>) /\ LitAt(u, s1(u, i) + 1, <<46>>)
                    THEN s1(u, i) + 2
                    ELSE IF LitAtI(u, s1(u, i), RUB) THEN dot(u, s1(u, i) + 3)
                    ELSE 0
        s2(u, i) == SpanIn(u, a1(u, i), WS)
        d2(u, i) == SpanIn(u, s2(u, i), DIGIT)
        s3(u, i) == SpanIn(u, d2(u, i), WS)
        pad(k) == IF Len(k) < 2 THEN <<48>> \o k ELSE k
        r1(u) ==
              ReplaceAll(u,
                [i \in 1..Len(u) |->
                    IF /\ d1(u, i) > i
                       /\ a1(u, i) > 0
                       /\ d2(u, i) - s2(u, i) \in {1, 2}
                       /\ LitAtI(u, s3(u, i), KOP)
                    THEN dot(u, s3(u, i) + 3) ELSE 0],
                [i \in 1..Len(u) |->
                    SubSeq(u, i, d1(u, i) - 1) \o <<44>>
                      \o pad(SubSeq(u, s2(u, i), d2(u, i) - 1)) \o <<160, 8381>>])
        \* /(\d+)\s*(руб\.?)\s*/gi
        r2(u) ==
              ReplaceAll(u,
                [i \in 1..Len(u) |->
                    IF d1(u, i) > i /\ LitAtI(u, s1(u, i), RUB)
                    THEN SpanIn(u, dot(u, s1(u, i) + 3), WS) ELSE 0],
                [i \in 1..Len(u) |-> SubSeq(u, i, d1(u, i) - 1) \o <<160, 8381>>])
        \* /(\d+)\s*(RUR|RUB)\b/gi
        r3(u) ==
              ReplaceAll(u,
                [i \in 1..Len(u) |->
                    IF /\ d1(u, i) > i
                       /\ (LitAtI(u, s1(u, i), <<82, 85, 82>>)
                             \/ LitAtI(u, s1(u, i), <<82, 85, 66>>))
                       /\ WordBoundary(u, s1(u, i) + 3)
                    THEN s1(u, i) + 3 ELSE 0],
                [i \in 1..Len(u) |-> SubSeq(u, i, d1(u, i) - 1) \o <<160, 8381>>])
        \* /(\d+)\s*р\./g
        r4(u) ==
              ReplaceAll(u,
                [i \in 1..Len(u) |->
                    IF d1(u, i) > i /\ LitAt(u, s1(u, i), <<1088, 46>>)
                    THEN s1(u, i) + 2 ELSE 0],
                [i \in 1..Len(u) |-> SubSeq(u, i, d1(u, i) - 1) \o <<160, 8381>>])
        r5(u) == ReplaceCurrencyCode(u, <<85, 83, 68>>, 36)
        r6(u) == ReplaceCurrencyCode(u, <<69, 85, 82>>, 8364)
    IN  ReplaceCurrencySign(r6(r5(r4(r3(r2(r1(t)))))), {36, 8364, 8381})

\* /\b(\d{2,})\s*[xх]\s*(\d+)\b/gi
ruMultiplication(t) ==
    LET d1(i) == SpanIn(t, i, DIGIT)
        s1(i) == SpanIn(t, d1(i), WS)
        s2(i) == SpanIn(t, s1(i) + 1, WS)
        d2(i) == SpanIn(t, s2(i), DIGIT)
    IN  ReplaceAll(t,
          [i \in 1..Len(t) |->
              IF /\ WordBoundary(t, i)
                 /\ d1(i) >= i + 2
                 /\ s1(i) <= Len(t)
                 /\ toUpperCase(t[s1(i)]) \in {88, 1061}
                 /\ d2(i) > s2(i)
                 /\ WordBoundary(t, d2(i))
              THEN d2(i) ELSE 0],
          [i \in 1..Len(t) |->
              SubSeq(t, i, d1(i) - 1) \o <<215>> \o SubSeq(t, s2(i), d2(i) - 1)])

\* /(\d)\.(\d)/g with the callback of ruDecimals; offset is the 0-based index
\* of the match, as the callback receives it
ruDecimals(t, protectedRanges) ==
    LET keep(i) ==
            LET offset == i - 1
                afterPos == offset + 3
            IN  \/ isProtected(offset, protectedRanges)
                \/ (afterPos < Len(t) /\ t[afterPos + 1] = 46)
                \/ (offset >= 2 /\ t[offset] = 46 /\ t[offset - 1] \in DIGIT)
    IN  ReplaceAll(t,
          [i \in 1..Len(t) |->
              IF /\ i + 2 <= Len(t)
                 /\ t[i] \in DIGIT /\ t[i + 1] = 46 /\ t[i + 2] \in DIGIT
              THEN i + 3 ELSE 0],
          [i \in 1..Len(t) |->
              IF keep(i) THEN SubSeq(t, i, i + 2) ELSE <<t[i], 44, t[i + 2]>>])

\* The match condition of /(\d)(?=(?:\d{3})+(?![,.\d]))/g at index i
ThousandsAt(t, i) ==
    LET e == SpanIn(t, i + 1, DIGIT)
    IN  /\ t[i] \in DIGIT
        /\ e > i + 1
        /\ (e - (i + 1)) % 3 = 0
        /\ (e > Len(t) \/ t[e] \notin {44, 46})

ruThousands(t, protectedRanges) ==
    ReplaceAll(t,
      [i \in 1..Len(t) |-> IF ThousandsAt(t, i) THEN i + 1 ELSE 0],
      [i \in 1..Len(t) |->
          IF isProtected(i - 1, protectedRanges) THEN <<t[i]>> ELSE <<t[i], 8201>>])

\* /(\d+)\s*%/g
ruPercent(t) ==
    LET d(i) == SpanIn(t, i, DIGIT)
        s(i) == SpanIn(t, d(i), WS)
    IN  ReplaceAll(t,
          [i \in 1..Len(t) |->
              IF d(i) > i /\ LitAt(t, s(i), <<37>>) THEN s(i) + 1 ELSE 0],
          [i \in 1..Len(t) |-> SubSeq(t, i, d(i) - 1) \o <<8201, 37>>])

ruNumberAbbr(t) ==
    LET \* /\b(тыс)(?![.\w])/gi
        first == ReplaceAll(t,
                   [i \in 1..Len(t) |->
                       IF /\ WordBoundary(t, i)
                          /\ LitAtI(t, i, <<1090, 1099, 1089>>)
                          /\ (i + 3 > Len(t) \/ t[i + 3] \notin WORD \cup {46})
                       THEN i + 3 ELSE 0],
                   [i \in 1..Len(t) |-> SubSeq(t, i, i + 2) \o <<46>>])
        \* /\b(млн|млрд|трлн)\./gi
        words == << <<1084, 1083, 1085>>, <<1084, 1083, 1088, 1076>>,
                    <<1090, 1088, 1083, 1085>> >>
        ks(i) == {k \in AltsI(first, i, words) : LitAt(first, i + Len(words[k]), <<46>>)}
        e(i) == i + Len(words[MinOf(ks(i))])
    IN  ReplaceAll(first,
          [i \in 1..Len(first) |->
              IF WordBoundary(first, i) /\ ks(i) # {} THEN e(i) + 1 ELSE 0],
          [i \in 1..Len(first) |-> SubSeq(first, i, e(i) - 1)])

ruTemperature(t) ==
    LET \* /([+-]?\d+)\s*°?\s*C(?![a-zA-Zа-яА-ЯёЁ])/g
        d0(u, i) == IF u[i] \in {43, 45} THEN i + 1 ELSE i
        d1(u, i) == SpanIn(u, d0(u, i), DIGIT)
        s1(u, i) == SpanIn(u, d1(u, i), WS)
        g(u, i) == IF LitAt(u, s1(u, i), <<176>>) THEN s1(u, i) + 1 ELSE s1(u, i)
        s2(u, i) == SpanIn(u, g(u, i), WS)
        first(u) ==
          ReplaceAll(u,
                   [i \in 1..Len(u) |->
                       IF /\ d1(u, i) > d0(u, i)
                          /\ LitAt(u, s2(u, i), <<67>>)
                          /\ (s2(u, i) + 1 > Len(u) \/ u[s2(u, i) + 1] \notin LETTER)
                       THEN s2(u, i) + 1 ELSE 0],
                   [i \in 1..Len(u) |-> SubSeq(u, i, d1(u, i) - 1) \o <<160, 176, 67>>])
        \* /(\d+)\s*(градусов|градуса|градус)\b/gi
        words == << <<1075, 1088, 1072, 1076, 1091, 1089, 1086, 1074>>,
                    <<1075, 1088, 1072, 1076, 1091, 1089, 1072>>,
                    <<1075, 1088, 1072, 1076, 1091, 1089>> >>
        e1(u, i) == SpanIn(u, i, DIGIT)
        e2(u, i) == SpanIn(u, e1(u, i), WS)
        ks(u, i) == {k \in AltsI(u, e2(u, i), words) :
                  WordBoundary(u, e2(u, i) + Len(words[k]))}
        second(u) ==
          ReplaceAll(u,
            [i \in 1..Len(u) |->
                IF e1(u, i) > i /\ ks(u, i) # {}
                THEN e2(u, i) + Len(words[MinOf(ks(u, i))]) ELSE 0],
            [i \in 1..Len(u) |-> SubSeq(u, i, e1(u, i) - 1) \o <<176>>])
    IN  second(first(t))

\* ---- rules/ru/hanging.ts

\* text.replace(/(\S+)\s([S]{1,3}[P]?)$/gm, '$1' + NBSP + '$2') for a class S
\* of word characters and a class P of closing punctuation
ReplaceHanging(t, S, P) ==
    LET e(i) == SpanNotIn(t, i, WS)
        \* the ends of [S]{1,3}[P]?$ from index j
        ends(j) == {x \in (j + 1)..(j + 4) :
                      /\ x <= Len(t) + 1
                      /\ EOL(t, x)
                      /\ \E c \in 1..3 :
                            /\ j + c - 1 <= Len(t)
                            /\ \A k \in j..(j + c - 1) : t[k] \in S
                            /\ \/ x = j + c
                               \/ (x = j + c + 1 /\ t[j + c] \in P)}
        \* at most one end exists: the character at the end is a line
        \* terminator, which is in neither class
        end(j) == MinOf(ends(j))
    IN  ReplaceAll(t,
          [i \in 1..Len(t) |->
              IF /\ e(i) > i
                 /\ e(i) <= Len(t)
                 /\ ends(e(i) + 1) # {}
              THEN end(e(i) + 1) ELSE 0],
          [i \in 1..Len(t) |->
              SubSeq(t, i, e(i) - 1) \o <<160>> \o SubSeq(t, e(i) + 1, end(e(i) + 1) - 1)])


\* ---- rules/en/index.ts

\* text.replace(/(^|[\s(\[{])Q(?=\S)/gm, '$1' + r) when lookahead is TRUE,
\* text.replace(/(^|[\s(\[{])Q/gm, '$1' + r) when it is FALSE
ReplaceOpeningQuote(t, q, r, lookahead) ==
    LET ok(j) == /\ LitAt(t, j, <<q>>)
                 /\ (lookahead => (j + 1 <= Len(t) /\ t[j + 1] \notin WS))
    IN  ReplaceAll(t,
          [i \in 1..Len(t) |->
              IF BOL(t, i) /\ ok(i) THEN i + 1
              ELSE IF t[i] \in (WS \cup {40, 91, 123}) /\ ok(i + 1) THEN i + 2
              ELSE 0],
          [i \in 1..Len(t) |-> IF BOL(t, i) /\ ok(i) THEN r ELSE <<t[i]>> \o r])

\* text.replace(/Q(?=[\s)\]},;:!?.]|$)/gm, r)
ReplaceClosingQuote(t, q, r) ==
    ReplaceAll(t,
      [i \in 1..Len(t) |->
          IF /\ t[i] = q
             /\ ((i + 1 <= Len(t) /\ t[i + 1] \in (WS \cup {41, 93, 125, 44, 59, 58, 33, 63, 46})) \/ EOL(t, i + 1))
          THEN i + 1 ELSE 0],
      [i \in 1..Len(t) |-> r])

\* the five replacements that enQuotes and frQuotes make on straight double
\* quotes, with the opening and closing glyphs o and c
SmartDoubleQuotes(t, o, c) ==
    LET s1 == ReplaceOpeningQuote(t, 34, o, TRUE)
        s2 == ReplaceClosingQuote(s1, 34, c)
        s3 == ReplaceOpeningQuote(s2, 34, o, FALSE)
    IN  ReplaceLit(s3, <<34>>, c)

enQuotes(t) ==
    LET n == [i \in 1..Len(t) |-> IF t[i] \in {8220, 8221} THEN 34 ELSE t[i]]
        d == SmartDoubleQuotes(n, <<8220>>, <<8221>>)
        \* /(\w)'(\w)/g
        a == ReplaceAll(d,
               [i \in 1..Len(d) |->
                   IF /\ i + 2 <= Len(d)
                      /\ d[i] \in WORD /\ d[i + 1] = 39 /\ d[i + 2] \in WORD
                   THEN i + 3 ELSE 0],
               [i \in 1..Len(d) |-> <<d[i], 8217, d[i + 2]>>])
        o == ReplaceOpeningQuote(a, 39, <<8216>>, TRUE)
    IN  ReplaceClosingQuote(o, 39, <<8217>>)

enDashes(t) ==
    LET \* /---?/g
        d == ReplaceAll(t,
               [i \in 1..Len(t) |->
                   IF LitAt(t, i, <<45, 45, 45>>) THEN i + 3
                   ELSE IF LitAt(t, i, <<45, 45>>) THEN i + 2
                   ELSE 0],
               [i \in 1..Len(t) |-> <<8212>>])
    IN  ReplaceDashRange(d, DIGIT)

\* the words of enShortWords
EN_SHORT_WORDS ==
    << <<97>>,
       <<97, 110>>,
       <<116, 104, 101>>,
       <<97, 116>>,
       <<98, 121>>,
       <<102, 111, 114>>,
       <<105, 110>>,
       <<111, 102>>,
       <<111, 110>>,
       <<116, 111>>,
       <<111, 114>>,
       <<105, 102>>,
       <<105, 115>> >>

\* text.replace(/(^|\s)(w1|w2|...)\s/gi, '$1$2' + NBSP) is
\* ReplaceSpaceAfterWord with an empty tail; the rule makes two passes
enShortWords(t) ==
    ReplaceSpaceAfterWord(ReplaceSpaceAfterWord(t, EN_SHORT_WORDS, << >>),
                          EN_SHORT_WORDS, << >>)

\* the units of enUnits
EN_UNITS ==
    << <<107, 103>>,
       <<107, 109>>,
       <<99, 109>>,
       <<109, 109>>,
       <<109, 108>>,
       <<108, 98>>,
       <<111, 122>>,
       <<102, 116>>,
       <<105, 110>>,
       <<109, 105>>,
       <<109, 112, 104>>,
       <<71, 66>>,
       <<77, 66>>,
       <<75, 66>>,
       <<84, 66>> >>

\* /(\d)\s+(kg|km|...)\b/g
enUnits(t) ==
    LET s(i) == SpanIn(t, i + 1, WS)
        ks(i) == {k \in Alts(t, s(i), EN_UNITS) : WordBoundary(t, s(i) + Len(EN_UNITS[k]))}
    IN  ReplaceAll(t,
          [i \in 1..Len(t) |->
              IF t[i] \in DIGIT /\ s(i) > i + 1 /\ ks(i) # {}
              THEN s(i) + Len(EN_UNITS[MinOf(ks(i))]) ELSE 0],
          [i \in 1..Len(t) |-> <<t[i], 160>> \o EN_UNITS[MinOf(ks(i))]])

\* text.replace(/(\d)\s*%/g, '$1' + sep + '%'), with \s+ when minSpaces = 1
ReplaceDigitPercent(t, minSpaces, sep) ==
    LET s(i) == SpanIn(t, i + 1, WS)
    IN  ReplaceAll(t,
          [i \in 1..Len(t) |->
              IF /\ t[i] \in DIGIT
                 /\ s(i) >= i + 1 + minSpaces
                 /\ LitAt(t, s(i), <<37>>)
              THEN s(i) + 1 ELSE 0],
          [i \in 1..Len(t) |-> <<t[i]>> \o sep \o <<37>>])

\* ---- rules/fr/index.ts

frQuotes(t) ==
    LET n == [i \in 1..Len(t) |-> IF t[i] \in {34, 171, 187, 8220, 8221} THEN 34 ELSE t[i]]
    IN  SmartDoubleQuotes(n, <<171, 8239>>, <<8239, 187>>)

frPunctuation(t) ==
    LET HIGH == {59, 58, 33, 63}
        \* /\s*([;:!?])/g
        s(i) == SpanIn(t, i, WS)
        a == ReplaceAll(t,
               [i \in 1..Len(t) |->
                   IF s(i) <= Len(t) /\ t[s(i)] \in HIGH THEN s(i) + 1 ELSE 0],
               [i \in 1..Len(t) |-> <<8239, t[s(i)]>>])
        \* /^ ([;:!?])/gm
    IN  ReplaceAll(a,
          [i \in 1..Len(a) |->
              IF /\ BOL(a, i) /\ a[i] = 8239
                 /\ i + 1 <= Len(a) /\ a[i + 1] \in HIGH
              THEN i + 2 ELSE 0],
          [i \in 1..Len(a) |-> <<a[i + 1]>>])

frDashes(t) == ReplacePhraseDash(ReplaceDashRange(t, DIGIT), <<160, 8211, 32>>)

frNumbers(t) ==
    LET a == ReplaceAll(t,
               [i \in 1..Len(t) |-> IF ThousandsAt(t, i) THEN i + 1 ELSE 0],
               [i \in 1..Len(t) |-> <<t[i], 8201>>])
    IN  ReplaceDigitPercent(a, 0, <<8239>>)

frCurrency(t) ==
    ReplaceCurrencySign(ReplaceCurrencyCode(t, <<69, 85, 82>>, 8364), {8364})

\* the keys and the values of the words table of frLigatures
LIGATURE_FROM ==
    << <<99, 111, 101, 117, 114>>,
       <<67, 111, 101, 117, 114>>,
       <<111, 101, 117, 118, 114, 101>>,
       <<79, 101, 117, 118, 114, 101>>,
       <<111, 101, 117, 118, 114, 101, 115>>,
       <<79, 101, 117, 118, 114, 101, 115>>,
       <<111, 101, 105, 108>>,
       <<79, 101, 105, 108>>,
       <<118, 111, 101, 117>>,
       <<86, 111, 101, 117>>,
       <<118, 111, 101, 117, 120>>,
       <<86, 111, 101, 117, 120>>,
       <<110, 111, 101, 117, 100>>,
       <<78, 111, 101, 117, 100>>,
       <<115, 111, 101, 117, 114>>,
       <<83, 111, 101, 117, 114>>,
       <<98, 111, 101, 117, 102>>,
       <<66, 111, 101, 117, 102>>,
       <<109, 97, 110, 111, 101, 117, 118, 114, 101>>,
       <<77, 97, 110, 111, 101, 117, 118, 114, 101>> >>

LIGATURE_TO ==
    << <<99, 339, 117, 114>>,
       <<67, 339, 117, 114>>,
       <<339, 117, 118, 114, 101>>,
       <<338, 117, 118, 114, 101>>,
       <<339, 117, 118, 114, 101, 115>>,
       <<338, 117, 118, 114, 101, 115>>,
       <<339, 105, 108>>,
       <<338, 105, 108>>,
       <<118, 339, 117>>,
       <<86, 339, 117>>,
       <<118, 339, 117, 120>>,
       <<86, 339, 117, 120>>,
       <<110, 339, 117, 100>>,
       <<78, 339, 117, 100>>,
       <<115, 339, 117, 114>>,
       <<83, 339, 117, 114>>,
       <<98, 339, 117, 102>>,
       <<66, 339, 117, 102>>,
       <<109, 97, 110, 339, 117, 118, 114, 101>>,
       <<77, 97, 110, 339, 117, 118, 114, 101>> >>

\* text.replace(/\bword\b/g, to)
ReplaceWholeWord(t, word, to) ==
    ReplaceAll(t,
      [i \in 1..Len(t) |->
          IF /\ WordBoundary(t, i)
             /\ LitAt(t, i, word)
             /\ WordBoundary(t, i + Len(word))
          THEN i + Len(word) ELSE 0],
      [i \in 1..Len(t) |-> to])

\* the loop of frLigatures from entry k on; the test on Len makes the
\* evaluation of one entry complete before the next one starts
RECURSIVE LigaturesFrom(_, _)
LigaturesFrom(t, k) ==
    IF k > Len(LIGATURE_FROM) THEN t
    ELSE LET next == ReplaceWholeWord(t, LIGATURE_FROM[k], LIGATURE_TO[k])
         IN  IF Len(next) <= Len(t) THEN LigaturesFrom(next, k + 1) ELSE next

frLigatures(t) == LigaturesFrom(t, 1)

\* ---- rules/zh/index.ts and rules/ja/index.ts

\* CJK_RANGE, and JA_CHAR = CJK_RANGE + HIRA_RANGE + KATA_RANGE
CJK_RANGE == (19968..40959) \cup (13312..19903) \cup (63744..64255)
JA_CHAR == CJK_RANGE \cup (12352..12447) \cup (12448..12543)

\* the two replacements of zhWidthNormalize and jaWidthNormalize
WidthNormalize(t) ==
    [i \in 1..Len(t) |->
        IF t[i] \in (65296..65305) \cup (65313..65338) \cup (65345..65370)
        THEN t[i] - 65248 ELSE t[i]]

\* text.replace(/([S])h/g, '$1' + f) for a class S, a character h and a
\* character f; h must not be followed by a digit when notBeforeDigit
ReplaceAfterClass(t, S, h, f, notBeforeDigit) ==
    ReplaceAll(t,
      [i \in 1..Len(t) |->
          IF /\ t[i] \in S
             /\ LitAt(t, i + 1, <<h>>)
             /\ (notBeforeDigit => ~(i + 2 <= Len(t) /\ t[i + 2] \in DIGIT))
          THEN i + 2 ELSE 0],
      [i \in 1..Len(t) |-> <<t[i], f>>])

\* the keys and the values of the map of zhFullwidthPunctuation
HALF == <<44, 46, 33, 63, 59, 58, 40, 41>>
FULL == <<65292, 12290, 65281, 65311, 65307, 65306, 65288, 65289>>

RECURSIVE FullwidthFrom(_, _)
FullwidthFrom(t, k) ==
    IF k > Len(HALF) THEN t
    ELSE LET after == ReplaceAfterClass(t, CJK_RANGE, HALF[k], FULL[k], FALSE)
             \* /\(([CJK])/g, for the opening bracket only
             before == IF HALF[k] = 40
                       THEN ReplaceAll(after,
                              [i \in 1..Len(after) |->
                                  IF /\ after[i] = 40
                                     /\ i + 1 <= Len(after)
                                     /\ after[i + 1] \in CJK_RANGE
                                  THEN i + 2 ELSE 0],
                              [i \in 1..Len(after) |-> <<FULL[k], after[i + 1]>>])
                       ELSE after
         IN  IF Len(before) = Len(t) THEN FullwidthFrom(before, k + 1) ELSE before

jaFullwidthPunctuation(t) ==
    LET a == ReplaceAfterClass(t, JA_CHAR, 44, 12289, FALSE)
        b == ReplaceAfterClass(a, JA_CHAR, 46, 12290, TRUE)
        c == ReplaceAfterClass(b, JA_CHAR, 33, 65281, FALSE)
    IN  ReplaceAfterClass(c, JA_CHAR, 63, 65311, FALSE)

\* the two replacements of zhQuotes and jaQuotes
CornerQuotes(t) ==
    LET \* /[“""]([^""“”]*?)[”""]/g
        QUOTE == {34, 8220, 8221}
        e(i) == SpanNotIn(t, i + 1, QUOTE)
        a == ReplaceAll(t,
               [i \in 1..Len(t) |->
                   IF /\ t[i] \in {8220, 34}
                      /\ e(i) <= Len(t)
                      /\ t[e(i)] \in {8221, 34}
                   THEN e(i) + 1 ELSE 0],
               [i \in 1..Len(t) |-> <<12300>> \o SubSeq(t, i + 1, e(i) - 1) \o <<12301>>])
        \* /「([^「」]*?)「([^「」]*?)」([^「」]*?)」/g
        CORNER == {12300, 12301}
        p(i) == SpanNotIn(a, i + 1, CORNER)
        q(i) == SpanNotIn(a, p(i) + 1, CORNER)
        r(i) == SpanNotIn(a, q(i) + 1, CORNER)
    IN  ReplaceAll(a,
          [i \in 1..Len(a) |->
              IF /\ a[i] = 12300
                 /\ LitAt(a, p(i), <<12300>>)
                 /\ LitAt(a, q(i), <<12301>>)
                 /\ LitAt(a, r(i), <<12301>>)
              THEN r(i) + 1 ELSE 0],
          [i \in 1..Len(a) |->
              <<12300>> \o SubSeq(a, i + 1, p(i) - 1) \o <<12302>>
                \o SubSeq(a, p(i) + 1, q(i) - 1) \o <<12303>>
                \o SubSeq(a, q(i) + 1, r(i) - 1) \o <<12301>>])

zhQuotes(t) == CornerQuotes(t)
jaQuotes(t) == CornerQuotes(t)

\* the two replacements of zhCjkLatinSpacing and jaCjkLatinSpacing, for the
\* class S of the locale
CjkLatinSpacing(t, S) ==
    LET ALNUM == (97..122) \cup (65..90) \cup DIGIT
        pair(u, A, B) ==
            ReplaceAll(u,
              [i \in 1..Len(u) |->
                  IF i + 1 <= Len(u) /\ u[i] \in A /\ u[i + 1] \in B
                  THEN i + 2 ELSE 0],
              [i \in 1..Len(u) |-> <<u[i], 32, u[i + 1]>>])
    IN  pair(pair(t, S, ALNUM), ALNUM, S)

\* the characters of noStart, in order
NO_START == <<12289, 12290, 65292, 65294, 12539, 65306, 65307, 65281, 65311, 65289, 12301, 12303, 12305, 12297, 12299, 12309, 65373, 12313, 12315, 187, 8217, 8221>>

\* the loop of jaKinsoku from character k of noStart on
RECURSIVE KinsokuFrom(_, _)
KinsokuFrom(t, k) ==
    IF k > Len(NO_START) THEN t
    ELSE LET next == ReplaceLit(t, <<32, NO_START[k]>>, <<160, NO_START[k]>>)
         IN  IF Len(next) = Len(t) THEN KinsokuFrom(next, k + 1) ELSE next


\* ------------------------------------------------------------------------
\* Registry and engine
\* ------------------------------------------------------------------------

\* the fields of a defineRule object that the engine reads
Rule(id, locale, enabled, priority) ==
    [id |-> id, locale |-> locale, enabled |-> enabled, priority |-> priority]

commonRules ==
    << Rule("common/spaces/double", "common", TRUE, 10),
       Rule("common/special/symbols", "common", TRUE, 20),
       Rule("common/special/plusminus", "common", TRUE, 21),
       Rule("common/punctuation/ellipsis", "common", TRUE, 15),
       Rule("common/punctuation/duplicates", "common", TRUE, 12) >>

ruRules ==
    << Rule("ru/case/capslock", "ru", TRUE, 5),
       Rule("ru/yo/basic", "ru", TRUE, 25),
       Rule("ru/quotes/guillemets", "ru", TRUE, 30),
       Rule("ru/dashes/endash", "ru", TRUE, 35),
       Rule("ru/dashes/emdash", "ru", TRUE, 36),
       Rule("ru/spaces/brackets", "ru", TRUE, 48),
       Rule("ru/spaces/shortwords", "ru", TRUE, 50),
       Rule("ru/spaces/emdash", "ru", TRUE, 51),
       Rule("ru/spaces/initials", "ru", TRUE, 52),
       Rule("ru/spaces/abbr-patterns", "ru", TRUE, 53),
       Rule("ru/spaces/digits-units", "ru", TRUE, 54),
       Rule("ru/spaces/dot-abbr", "ru", TRUE, 55),
       Rule("ru/spaces/symbols", "ru", TRUE, 56),
       Rule("ru/currency/format", "ru", TRUE, 60),
       Rule("ru/numbers/multiplication", "ru", TRUE, 61),
       Rule("ru/numbers/decimals", "ru", TRUE, 62),
       Rule("ru/numbers/thousands", "ru", TRUE, 63),
       Rule("ru/numbers/percent", "ru", TRUE, 64),
       Rule("ru/numbers/abbreviations", "ru", TRUE, 65),
       Rule("ru/numbers/temperature", "ru", TRUE, 66),
       Rule("ru/spaces/hanging", "ru", TRUE, 90) >>

enRules ==
    << Rule("en/quotes/curly", "en", TRUE, 30),
       Rule("en/dashes/smart", "en", TRUE, 35),
       Rule("en/spaces/shortwords", "en", TRUE, 50),
       Rule("en/spaces/units", "en", TRUE, 54),
       Rule("en/numbers/percent", "en", TRUE, 64),
       Rule("en/spaces/hanging", "en", TRUE, 90) >>

frRules ==
    << Rule("fr/quotes/guillemets", "fr", TRUE, 30),
       Rule("fr/punctuation/spaces", "fr", TRUE, 40),
       Rule("fr/dashes/endash", "fr", TRUE, 35),
       Rule("fr/numbers/format", "fr", TRUE, 62),
       Rule("fr/currency/euro", "fr", TRUE, 60),
       Rule("fr/special/ligatures", "fr", TRUE, 70) >>

zhRules ==
    << Rule("zh/width/normalize", "zh", TRUE, 25),
       Rule("zh/punctuation/fullwidth", "zh", TRUE, 30),
       Rule("zh/quotes/corner", "zh", TRUE, 31),
       Rule("zh/spaces/cjk-latin", "zh", TRUE, 50) >>

jaRules ==
    << Rule("ja/width/normalize", "ja", TRUE, 25),
       Rule("ja/punctuation/fullwidth", "ja", TRUE, 30),
       Rule("ja/quotes/corner", "ja", TRUE, 31),
       Rule("ja/spaces/cjk-latin", "ja", TRUE, 50),
       Rule("ja/punctuation/kinsoku", "ja", TRUE, 90) >>

ALL_RULES == commonRules \o ruRules \o enRules \o frRules \o zhRules \o jaRules

\* rule.apply(text, ctx)
Apply(rule, t, ctx) ==
    IF rule.locale = "common" THEN
        IF rule.id = "common/spaces/double" THEN ReplaceRuns(t, 32, <<32>>)
        ELSE IF rule.id = "common/special/symbols" THEN specialSymbols(t)
        ELSE IF rule.id = "common/special/plusminus" THEN ReplaceLit(t, <<43, 45>>, <<177>>)
        ELSE IF rule.id = "common/punctuation/ellipsis" THEN ellipsis(t)
        ELSE IF rule.id = "common/punctuation/duplicates" THEN duplicatePunctuation(t)
        ELSE nbspOrphan(t)
    ELSE IF rule.locale = "ru" THEN
        IF rule.id = "ru/case/capslock" THEN ruFixCase(t)
        ELSE IF rule.id = "ru/yo/basic" THEN ruYo(t)
        ELSE IF rule.id = "ru/quotes/guillemets" THEN ruQuotes(t)
        ELSE IF rule.id = "ru/dashes/endash" THEN ruEnDash(t)
        ELSE IF rule.id = "ru/dashes/emdash" THEN ruEmDash(t)
        ELSE IF rule.id = "ru/spaces/brackets" THEN ruBracketSpaces(t)
        ELSE IF rule.id = "ru/spaces/shortwords" THEN ruShortWords(t)
        ELSE IF rule.id = "ru/spaces/emdash" THEN ReplaceLit(t, <<32, 8212>>, <<160, 8212>>)
        ELSE IF rule.id = "ru/spaces/initials" THEN ruInitials(t)
        ELSE IF rule.id = "ru/spaces/abbr-patterns" THEN ruAbbreviationPatterns(t)
        ELSE IF rule.id = "ru/spaces/digits-units" THEN ruDigitsUnits(t)
        ELSE IF rule.id = "ru/spaces/dot-abbr" THEN ReplaceSpaceAfterWord(t, ABBREVIATIONS, <<46>>)
        ELSE IF rule.id = "ru/spaces/symbols" THEN ReplaceSpaceAfterWord(t, SYMBOLS, << >>)
        ELSE IF rule.id = "ru/currency/format" THEN ruCurrency(t)
        ELSE IF rule.id = "ru/numbers/multiplication" THEN ruMultiplication(t)
        ELSE IF rule.id = "ru/numbers/decimals" THEN ruDecimals(t, ctx.protectedRanges)
        ELSE IF rule.id = "ru/numbers/thousands" THEN ruThousands(t, ctx.protectedRanges)
        ELSE IF rule.id = "ru/numbers/percent" THEN ruPercent(t)
        ELSE IF rule.id = "ru/numbers/abbreviations" THEN ruNumberAbbr(t)
        ELSE IF rule.id = "ru/numbers/temperature" THEN ruTemperature(t)
        ELSE ReplaceHanging(t, CYR \cup {45}, {46, 44, 33, 63, 8230})
    ELSE IF rule.locale = "en" THEN
        IF rule.id = "en/quotes/curly" THEN enQuotes(t)
        ELSE IF rule.id = "en/dashes/smart" THEN enDashes(t)
        ELSE IF rule.id = "en/spaces/shortwords" THEN enShortWords(t)
        ELSE IF rule.id = "en/spaces/units" THEN enUnits(t)
        ELSE IF rule.id = "en/numbers/percent" THEN ReplaceDigitPercent(t, 1, << >>)
        ELSE ReplaceHanging(t, (65..90) \cup (97..122) \cup {45}, {46, 44, 33, 63})
    ELSE IF rule.locale = "fr" THEN
        IF rule.id = "fr/quotes/guillemets" THEN frQuotes(t)
        ELSE IF rule.id = "fr/punctuation/spaces" THEN frPunctuation(t)
        ELSE IF rule.id = "fr/dashes/endash" THEN frDashes(t)
        ELSE IF rule.id = "fr/numbers/format" THEN frNumbers(t)
        ELSE IF rule.id = "fr/currency/euro" THEN frCurrency(t)
        ELSE frLigatures(t)
    ELSE IF rule.locale = "zh" THEN
        IF rule.id = "zh/width/normalize" THEN WidthNormalize(t)
        ELSE IF rule.id = "zh/punctuation/fullwidth" THEN FullwidthFrom(t, 1)
        ELSE IF rule.id = "zh/quotes/corner" THEN zhQuotes(t)
        ELSE CjkLatinSpacing(t, CJK_RANGE)
    ELSE
        IF rule.id = "ja/width/normalize" THEN WidthNormalize(t)
        ELSE IF rule.id = "ja/punctuation/fullwidth" THEN jaFullwidthPunctuation(t)
        ELSE IF rule.id = "ja/quotes/corner" THEN jaQuotes(t)
        ELSE IF rule.id = "ja/spaces/cjk-latin" THEN CjkLatinSpacing(t, JA_CHAR)
        ELSE KinsokuFrom(t, 1)

\* ALL_RULES.filter(r => r.locale === locale || r.locale === 'common')
RECURSIVE FilterByLocale(_, _)
FilterByLocale(rs, locale) ==
    IF Len(rs) = 0 THEN << >>
    ELSE IF Head(rs).locale = locale \/ Head(rs).locale = "common"
    THEN <<Head(rs)>> \o FilterByLocale(Tail(rs), locale)
    ELSE FilterByLocale(Tail(rs), locale)

\* Array.prototype.sort((a, b) => a.priority - b.priority), which is stable
RECURSIVE InsertByPriority(_, _)
InsertByPriority(sorted, x) ==
    IF Len(sorted) = 0 THEN <<x>>
    ELSE IF sorted[Len(sorted)].priority <= x.priority THEN Append(sorted, x)
    ELSE Append(InsertByPriority(SubSeq(sorted, 1, Len(sorted) - 1), x),
                sorted[Len(sorted)])

RECURSIVE SortByPriority(_)
SortByPriority(rs) ==
    IF Len(rs) = 0 THEN << >>
    ELSE InsertByPriority(SortByPriority(SubSeq(rs, 1, Len(rs) - 1)), rs[Len(rs)])

\* getRulesForLocale without the sort: the rules in catalog order
getRulesForLocaleUnsorted(locale) == FilterByLocale(ALL_RULES, locale)

getRulesForLocale(locale) == SortByPriority(FilterByLocale(ALL_RULES, locale))

\* trim that strips U+0020 alone
trimSpaces(t) ==
    LET ks == {k \in 1..Len(t) : t[k] # 32}
    IN  IF ks = {} THEN << >>
        ELSE SubSeq(t, MinOf(ks), CHOOSE k \in ks : \A j \in ks : j <= k)

\* String.prototype.trim
trim(t) ==
    LET ks == {k \in 1..Len(t) : t[k] \notin WS}
    IN  IF ks = {} THEN << >>
        ELSE SubSeq(t, MinOf(ks), CHOOSE k \in ks : \A j \in ks : j <= k)

\* isEnabled without the overrides: the rule's own flag alone
isEnabledByDefault(settings, rule) == rule.enabled

\* settings.enabledRules[rule.id] ?? rule.enabled
isEnabled(settings, rule) ==
    IF rule.id \in DOMAIN settings.enabledRules
    THEN settings.enabledRules[rule.id]
    ELSE rule.enabled

\* the iteration without the assignment to ctx.protectedRanges: the rule
\* receives the ranges the context object already holds
ApplyRuleWithRangesOfCtx(rule, acc, ranges) ==
    LET logged(out) ==
            [result |-> out,
             ctx |-> acc.ctx,
             log |-> Append(acc.log, [id |-> rule.id, input |-> acc.result,
                                      protectedRanges |-> acc.ctx.protectedRanges,
                                      output |-> out])]
    IN  logged(Apply(rule, acc.result, acc.ctx))

\* the body of the loop for an enabled rule: the result and the context as
\* the iteration leaves them, and the log with the iteration's entry
\* ctx.protectedRanges = ranges; result = rule.apply(result, ctx)
ApplyRule(rule, acc, ranges) ==
    LET logged(out) ==
            [result |-> out,
             ctx |-> [acc.ctx EXCEPT !.protectedRanges = ranges],
             log |-> Append(acc.log, [id |-> rule.id, input |-> acc.result,
                                      protectedRanges |-> ranges, output |-> out])]
    IN  logged(Apply(rule, acc.result, [acc.ctx EXCEPT !.protectedRanges = ranges]))

\* the for loop of applyTypography from the k-th rule on; acc holds result,
\* ctx and the log of the rules applied so far.  The test on Len(acc.result)
\* is never true: it makes the iteration's input evaluated before the next
\* iteration starts, which keeps the evaluation shallow.
RECURSIVE RunRules(_, _, _, _)
RunRules(rules, k, settings, acc) ==
    IF k > Len(rules) \/ Len(acc.result) < 0 THEN acc
    ELSE IF ~isEnabled(settings, rules[k]) THEN RunRules(rules, k + 1, settings, acc)
    ELSE RunRules(rules, k + 1, settings,
                  ApplyRule(rules[k], acc, findProtectedRanges(acc.result)))

\* applyTypography(text, settings): the returned text, with the context
\* object and the log of rule applications as the call left them
applyTypography(text, settings) ==
    LET locale == IF settings.locale = "auto" THEN detectLocale(text)
                  ELSE settings.locale
    IN  IF Len(text) = 0 \/ Len(trim(text)) = 0
        THEN [result |-> text, ctx |-> [locale |-> "", protectedRanges |-> << >>],
              log |-> << >>]
        ELSE RunRules(getRulesForLocale(locale), 1, settings,
                      [result |-> text,
                       ctx |-> [locale |-> locale,
                                protectedRanges |-> findProtectedRanges(text)],
                       log |-> << >>])


\* ------------------------------------------------------------------------
\* Inputs
\* ------------------------------------------------------------------------

\* the texts made of at most n fragments of F
Texts(F, n) ==
    UNION {{Join(s, << >>) : s \in [1..k -> F]} : k \in 0..n}

\* fragments of the texts given to applyTypography
FRAGMENTS ==
    { <<1054, 1085, 32>>,
      <<1077, 1097, 1077>>,
      <<34, 1076, 1072, 34>>,
      <<51, 46, 49, 52>>,
      <<104, 116, 116, 112, 58, 47, 47, 97, 46, 114, 117, 47, 49, 45, 50>>,
      <<32>>,
      <<9, 10, 160>>,
      <<73, 108, 32, 100, 105, 116>>,
      <<1069, 1058, 1054, 32, 1054, 1063, 1045, 1053, 1068, 32, 1043, 1056, 1054, 1052, 1050, 1048, 1049, 32, 1058, 1045, 1050, 1057, 1058, 32>> }

MaxFrags == 2

\* the settings objects: every locale without overrides, the overrides
\* under an explicit and under the detected locale, and the entry that
\* collectSettings writes for the balance option
SETTINGS ==
    [locale : {"ru", "en", "fr", "zh", "ja", "common", "auto", "xx", "undefined"},
     enabledRules : {<< >>}]
      \cup [locale : {"ru", "auto"},
            enabledRules : {<< >>} \cup UNION {[{k} -> BOOLEAN] :
                                      k \in {"ru/yo/basic", "no/such/rule"}}]
      \cup [locale : {"ru", "en"},
            enabledRules : {[k \in {"common/layout/orphan"} |-> TRUE]}]

\* ------------------------------------------------------------------------
\* State machine
\* ------------------------------------------------------------------------

VARIABLES
    phase,      \* "called": a call is under way; "returned": it has returned
    text,       \* the text argument of the call
    settings,   \* the settings argument of the call
    result,     \* the value the call returned
    ctx,        \* the RuleContext object of the call
    log,        \* one entry per rule.apply call of the call
    pass,       \* 1 for a call on a fresh text, 2 for a call on a returned text
    lastIndex,  \* lastIndex of each regex of PROTECTED_PATTERNS
    scan,       \* the locals of the scan loop of ruQuotes.apply
    calls,      \* the locals of two interleaved calls of applyTypography
    catalog,    \* the elements of the array ALL_RULES
    arrays      \* the arrays that getAllRules and getRulesForLocale returned

vars == <<phase, text, settings, result, ctx, log, pass, lastIndex, scan, calls,
          catalog, arrays>>

\* the values of the variables that a specification leaves alone
Idle ==
    [ctx |-> [locale |-> "", protectedRanges |-> << >>],
     scan |-> [chars |-> << >>, i |-> 0, depth |-> 0, output |-> << >>],
     calls |-> << >>,
     lastIndex |-> [p \in 1..NPATTERNS |-> 0]]

Init ==
    /\ phase = "called"
    /\ text \in Texts(FRAGMENTS, MaxFrags)
    /\ settings \in SETTINGS
    /\ result = << >>
    /\ ctx = Idle.ctx
    /\ log = << >>
    /\ pass = 1
    /\ catalog = ALL_RULES
    /\ arrays = << >>
    /\ lastIndex = Idle.lastIndex
    /\ scan = Idle.scan
    /\ calls = Idle.calls

\* applyTypography(text, settings) runs to its return.  Every regex of
\* PROTECTED_PATTERNS is left with lastIndex 0: findProtectedRanges runs each
\* exec loop until exec fails, and a failing exec sets lastIndex to 0.
ApplyTypography ==
    /\ phase = "called"
    /\ \E r \in {applyTypography(text, settings)} :
          /\ result' = r.result
          /\ ctx' = r.ctx
          /\ log' = r.log
    /\ lastIndex' = Idle.lastIndex
    /\ phase' = "returned"
    /\ UNCHANGED <<text, settings, pass, scan, calls, catalog, arrays>>

\* the caller passes the returned text to applyTypography again, with the
\* same settings
Reapply ==
    /\ phase = "returned"
    /\ pass = 1
    /\ text' = result
    /\ pass' = 2
    /\ phase' = "called"
    /\ UNCHANGED <<settings, result, ctx, log, lastIndex, scan, calls, catalog, arrays>>

Next == ApplyTypography \/ Reapply

Spec == Init /\ [][Next]_vars

\* ------------------------------------------------------------------------
\* ru/numbers/decimals alone, as the loop of applyTypography calls it: with
\* the protected ranges of the text it receives
\* ------------------------------------------------------------------------

DECIMAL_FRAGMENTS ==
    { <<51, 46, 49, 52>>,
      <<49, 57, 50, 46, 49, 54, 56, 46, 49, 46, 49>>,
      <<49>>,
      <<46>>,
      <<32>>,
      <<118>>,
      <<64, 98, 46, 99, 100>>,
      <<104, 116, 116, 112, 58, 47, 47, 97, 47>> }

MaxDecimalFrags == 5

InitDecimals ==
    /\ phase = "called"
    /\ text \in Texts(DECIMAL_FRAGMENTS, MaxDecimalFrags)
    /\ settings = [locale |-> "ru", enabledRules |-> << >>]
    /\ result = << >>
    /\ ctx = Idle.ctx
    /\ log = << >>
    /\ pass = 1
    /\ catalog = ALL_RULES
    /\ arrays = << >>
    /\ lastIndex = Idle.lastIndex
    /\ scan = Idle.scan
    /\ calls = Idle.calls

\* ctx.protectedRanges = findProtectedRanges(result);
\* result = rule.apply(result, ctx), for the rule ru/numbers/decimals
ApplyDecimals ==
    /\ phase = "called"
    /\ \E ranges \in {findProtectedRanges(text)} :
          /\ ctx' = [locale |-> "ru", protectedRanges |-> ranges]
          /\ result' = ruDecimals(text, ranges)
    /\ phase' = "returned"
    /\ UNCHANGED <<text, settings, log, pass, lastIndex, scan, calls, catalog, arrays>>

SpecDecimals == InitDecimals /\ [][ApplyDecimals]_vars

\* ------------------------------------------------------------------------
\* ruQuotes.apply, one iteration of its scan loop at a time.  scan holds the
\* locals of the loop; log[p] is the value depth had when the loop reached
\* the p-th character.
\* ------------------------------------------------------------------------

MaxQuoteFrags == 6

InitQuoteScan ==
    /\ phase = "called"
    /\ text \in Texts({<<34>>, <<171>>, <<32>>, <<1072>>, <<40>>}, MaxQuoteFrags)
    /\ settings = [locale |-> "ru", enabledRules |-> << >>]
    /\ result = << >>
    /\ ctx = Idle.ctx
    /\ log = << >>
    /\ pass = 1
    /\ catalog = ALL_RULES
    /\ arrays = << >>
    /\ lastIndex = Idle.lastIndex
    /\ scan = Idle.scan
    /\ calls = Idle.calls

\* the statements before the loop: the quotes are normalized, chars is the
\* array of characters, output is empty and depth is 0
Normalize ==
    /\ phase = "called"
    /\ scan' = [chars |-> NormalizeQuotes(text), i |-> 0, depth |-> 0,
                output |-> << >>]
    /\ phase' = "scanning"
    /\ UNCHANGED <<text, settings, result, ctx, log, pass, lastIndex, calls, catalog, arrays>>

\* one iteration of the loop
ScanStep ==
    /\ phase = "scanning"
    /\ scan.i < Len(scan.chars)
    /\ \E st \in {QuoteStep(scan.chars, scan)} :
          scan' = [chars |-> scan.chars, i |-> st.i, depth |-> st.depth,
                   output |-> st.output]
    /\ log' = Append(log, scan.depth)
    /\ UNCHANGED <<phase, text, settings, result, ctx, pass, lastIndex, calls, catalog, arrays>>

\* the loop ends: return output.join('')
FinishScan ==
    /\ phase = "scanning"
    /\ scan.i >= Len(scan.chars)
    /\ result' = scan.output
    /\ phase' = "returned"
    /\ UNCHANGED <<text, settings, ctx, log, pass, lastIndex, scan, calls, catalog, arrays>>

SpecQuoteScan == InitQuoteScan /\ [][Normalize \/ ScanStep \/ FinishScan]_vars

\* ------------------------------------------------------------------------
\* detectLocale on texts of mixed script: runs of あ, 中, U+3400, U+F900, е,
\* a, é and 1
\* ------------------------------------------------------------------------

MaxKana == 2
MaxIdeographs == 3
MaxCyrillic == 3
MaxLatin == 21

InitDetect ==
    /\ phase = "called"
    /\ text \in
          { [i \in 1..k |-> 12354] \o [i \in 1..c |-> 20013] \o [i \in 1..a |-> 13312]
              \o [i \in 1..b |-> 63744] \o [i \in 1..y |-> 1077]
              \o [i \in 1..l |-> 97] \o [i \in 1..f |-> 233] \o [i \in 1..d |-> 49] :
            k \in 0..MaxKana, c \in 0..MaxIdeographs, a \in 0..1, b \in 0..1,
            y \in 0..MaxCyrillic, l \in 0..MaxLatin, f \in 0..1, d \in 0..1 }
    /\ settings = [locale |-> "auto", enabledRules |-> << >>]
    /\ result = << >>
    /\ ctx = Idle.ctx
    /\ log = << >>
    /\ pass = 1
    /\ catalog = ALL_RULES
    /\ arrays = << >>
    /\ lastIndex = Idle.lastIndex
    /\ scan = Idle.scan
    /\ calls = Idle.calls

\* const locale = detectLocale(text)
DetectLocale ==
    /\ phase = "called"
    /\ ctx' = [ctx EXCEPT !.locale = detectLocale(text)]
    /\ phase' = "returned"
    /\ UNCHANGED <<text, settings, result, log, pass, lastIndex, scan, calls, catalog, arrays>>

SpecDetect == InitDetect /\ [][DetectLocale]_vars

\* ------------------------------------------------------------------------
\* Two calls of applyTypography, one statement at a time, in every order of
\* their statements.  calls[c] holds the locals of call c: pc is the
\* statement it is at, k the index of the rule of the current iteration (0
\* before the loop), p the index of the pattern findProtectedRanges is at,
\* ranges its local array; alone is TRUE as long as no statement of the
\* other call has run between two statements of call c.  lastIndex belongs
\* to the regex objects of PROTECTED_PATTERNS, which are the same objects
\* for both calls.
\* ------------------------------------------------------------------------

\* pattern.lastIndex = 0 without the assignment
KeepLastIndex(li, p) == li

\* pattern.lastIndex = 0
ResetLastIndex(li, p) == [li EXCEPT ![p] = 0]

\* call c goes on with locals new; the other call, if it is under way, has
\* now been interleaved
Proceed(c, new) ==
    calls' = [d \in 1..2 |->
                IF d = c THEN new
                ELSE [calls[d] EXCEPT
                        !.alone = @ /\ calls[d].pc \in {"start", "done"}]]

InitInterleaved ==
    /\ phase = "called"
    /\ text = << >>
    /\ settings = [locale |-> "ru",
                   enabledRules |-> [id \in {ALL_RULES[k].id : k \in 1..Len(ALL_RULES)}
                                       |-> id = "ru/numbers/decimals"]]
    /\ result = << >>
    /\ ctx = Idle.ctx
    /\ log = << >>
    /\ pass = 1
    /\ catalog = ALL_RULES
    /\ arrays = << >>
    /\ lastIndex = Idle.lastIndex
    /\ scan = Idle.scan
    /\ calls \in [1..2 ->
          { [pc |-> "start", text |-> t, locale |-> "", result |-> t, k |-> 0,
             p |-> 1, ranges |-> << >>, protectedRanges |-> << >>, alone |-> TRUE] :
            t \in { <<104, 116, 116, 112, 58, 47, 47, 97, 47, 51, 46, 49, 52>>,
                    <<51, 46, 49, 52>>,
                    <<32>> } }]

\* from the entry of the function to the first statement of the first
\* findProtectedRanges
StartCall(c) ==
    /\ calls[c].pc = "start"
    /\ Proceed(c, [calls[c] EXCEPT
                     !.pc = IF Len(calls[c].text) = 0 \/ Len(trim(calls[c].text)) = 0
                            THEN "done" ELSE "reset",
                     !.locale = IF settings.locale = "auto"
                                THEN detectLocale(calls[c].text)
                                ELSE settings.locale])
    /\ UNCHANGED <<phase, text, settings, result, ctx, log, pass, lastIndex, scan, catalog, arrays>>

\* pattern.lastIndex = 0
ResetStep(c) ==
    /\ calls[c].pc = "reset"
    /\ lastIndex' = ResetLastIndex(lastIndex, calls[c].p)
    /\ Proceed(c, [calls[c] EXCEPT !.pc = "exec"])
    /\ UNCHANGED <<phase, text, settings, result, ctx, log, pass, scan, catalog, arrays>>

\* one evaluation of (match = pattern.exec(text)) !== null, with the push
\* when it is true; when it is false for the last pattern, the sort and the
\* return of findProtectedRanges
ExecStep(c) ==
    /\ calls[c].pc = "exec"
    /\ \E m \in {Exec(calls[c].p, calls[c].result, lastIndex[calls[c].p])} :
          /\ lastIndex' = [lastIndex EXCEPT ![calls[c].p] = m.lastIndex]
          /\ Proceed(c,
                IF m.found
                THEN [calls[c] EXCEPT !.ranges = Append(@, <<m.index, m.end>>)]
                ELSE IF calls[c].p < NPATTERNS
                THEN [calls[c] EXCEPT !.p = @ + 1, !.pc = "reset"]
                ELSE [calls[c] EXCEPT !.protectedRanges = SortByStart(calls[c].ranges),
                                      !.ranges = << >>, !.p = 1, !.pc = "apply"])
    /\ UNCHANGED <<phase, text, settings, result, ctx, log, pass, scan, catalog, arrays>>

\* result = rule.apply(result, ctx) for the rule of the current iteration
\* (nothing before the loop), then the loop up to the next enabled rule, or
\* the return when there is none
ApplyStep(c) ==
    /\ calls[c].pc = "apply"
    /\ \E rules \in {getRulesForLocale(calls[c].locale)} :
       \E out \in {IF calls[c].k = 0 THEN calls[c].result
                   ELSE Apply(rules[calls[c].k], calls[c].result,
                              [locale |-> calls[c].locale,
                               protectedRanges |-> calls[c].protectedRanges])} :
       \E later \in {{j \in (calls[c].k + 1)..Len(rules) : isEnabled(settings, rules[j])}} :
          Proceed(c,
            IF later = {}
            THEN [calls[c] EXCEPT !.result = out, !.pc = "done"]
            ELSE [calls[c] EXCEPT !.result = out, !.pc = "reset",
                                  !.k = CHOOSE j \in later : \A j2 \in later : j <= j2])
    /\ UNCHANGED <<phase, text, settings, result, ctx, log, pass, lastIndex, scan, catalog, arrays>>

SpecInterleaved ==
    /\ InitInterleaved
    /\ [][\E c \in 1..2 : StartCall(c) \/ ResetStep(c) \/ ExecStep(c) \/ ApplyStep(c)]_vars

\* ------------------------------------------------------------------------
\* common/layout/orphan alone, on texts of several lines made of "a a", "b",
\* a space, a tab and a line feed
\* ------------------------------------------------------------------------

MaxOrphanFrags == 6

InitOrphan ==
    /\ phase = "called"
    /\ text \in Texts({<<97, 32, 97>>, <<98>>, <<32>>, <<9>>, <<10>>}, MaxOrphanFrags)
    /\ settings = [locale |-> "common",
                   enabledRules |-> [k \in {"common/layout/orphan"} |-> TRUE]]
    /\ result = << >>
    /\ ctx = Idle.ctx
    /\ log = << >>
    /\ pass = 1
    /\ catalog = ALL_RULES
    /\ arrays = << >>
    /\ lastIndex = Idle.lastIndex
    /\ scan = Idle.scan
    /\ calls = Idle.calls

\* nbspOrphan.apply(text)
ApplyOrphan ==
    /\ phase = "called"
    /\ result' = nbspOrphan(text)
    /\ phase' = "returned"
    /\ UNCHANGED <<text, settings, ctx, log, pass, lastIndex, scan, calls, catalog, arrays>>

SpecOrphan == InitOrphan /\ [][ApplyOrphan]_vars

\* ------------------------------------------------------------------------
\* Every loop of a call, one iteration at a time: two calls of
\* applyTypography with the same arguments, statement by statement, the
\* second entered when the first has returned; and the scan of
\* ruQuotes.apply character by character.  A statement that can run does
\* run.
\* ------------------------------------------------------------------------

MaxStepFrags == 1

InitSteps ==
    /\ phase = "stepping"
    /\ text = << >>
    /\ settings \in [locale : {"ru", "en", "fr", "zh", "ja", "auto", "common"},
                     enabledRules : {<< >>}]
    /\ result = << >>
    /\ ctx = Idle.ctx
    /\ log = << >>
    /\ pass = 1
    /\ catalog = ALL_RULES
    /\ arrays = << >>
    /\ lastIndex = Idle.lastIndex
    /\ scan = Idle.scan
    /\ \E t \in Texts(FRAGMENTS, MaxStepFrags) :
          calls = [c \in 1..2 |->
                     [pc |-> "start", text |-> t, locale |-> "", result |-> t,
                      k |-> 0, p |-> 1, ranges |-> << >>,
                      protectedRanges |-> << >>, alone |-> TRUE]]

NextSteps ==
    \/ /\ phase = "stepping"
       /\ \E c \in 1..2 :
             /\ c = 2 => calls[1].pc = "done"
             /\ StartCall(c) \/ ResetStep(c) \/ ExecStep(c) \/ ApplyStep(c)
    \/ Normalize \/ ScanStep \/ FinishScan

\* The last conjunct is WF_vars(NextSteps) with ENABLED <<NextSteps>>_vars
\* written out: a step is possible exactly while the second call or the
\* scan has not returned.
SpecTermination ==
    /\ InitSteps \/ InitQuoteScan
    /\ [][NextSteps]_vars
    /\ \/ []<>(phase = "returned" \/ (phase = "stepping" /\ calls[2].pc = "done"))
       \/ []<><<NextSteps>>_vars

\* ------------------------------------------------------------------------
\* The registry accessors, called in any order with calls of
\* applyTypography by a caller that also writes to the arrays it was
\* handed.  An element of arrays is one array object: items are its
\* elements, isCatalog tells whether it is the array ALL_RULES itself, and
\* writes counts what the caller has done to it.
\* ------------------------------------------------------------------------

MaxArrays == 2

MaxWrites == 2

\* getAllRules that returns ALL_RULES instead of a copy of it
getAllRulesItself(all) == [items |-> all, isCatalog |-> TRUE, writes |-> 0]

\* getAllRules: [...ALL_RULES], a new array with the elements of ALL_RULES
getAllRules(all) == [items |-> all, isCatalog |-> FALSE, writes |-> 0]

InitRegistry ==
    /\ phase = "called"
    /\ text = <<34, 1076, 1072, 34>>
    /\ settings = [locale |-> "ru", enabledRules |-> << >>]
    /\ result = << >>
    /\ ctx = Idle.ctx
    /\ log = << >>
    /\ pass = 1
    /\ catalog = ALL_RULES
    /\ arrays = << >>
    /\ lastIndex = Idle.lastIndex
    /\ scan = Idle.scan
    /\ calls = Idle.calls

\* a caller calls getAllRules() and keeps the array
GetAllRules ==
    /\ Len(arrays) < MaxArrays
    /\ arrays' = Append(arrays, getAllRules(catalog))
    /\ UNCHANGED <<phase, text, settings, result, ctx, log, pass, lastIndex, scan, calls, catalog>>

\* a caller calls getRulesForLocale(locale) and keeps the array: filter
\* builds a new array, which sort orders in place and returns
GetRulesForLocale ==
    /\ Len(arrays) < MaxArrays
    /\ \E locale \in {"ru", "en", "fr", "zh", "ja", "common"} :
          arrays' = Append(arrays, [items |-> SortByPriority(FilterByLocale(catalog, locale)),
                                    isCatalog |-> FALSE, writes |-> 0])
    /\ UNCHANGED <<phase, text, settings, result, ctx, log, pass, lastIndex, scan, calls, catalog>>

\* a caller reverses an array it was handed, pops its last element or
\* pushes a rule of its own; a write to the array ALL_RULES is a write to
\* the catalog and to every other reference to it
WriteArray ==
    \E i \in 1..Len(arrays) :
    \E op \in {"reverse", "pop", "push"} :
    \E new \in {IF op = "reverse"
                THEN [k \in 1..Len(arrays[i].items) |->
                        arrays[i].items[Len(arrays[i].items) + 1 - k]]
                ELSE IF op = "pop"
                THEN SubSeq(arrays[i].items, 1, Len(arrays[i].items) - 1)
                ELSE Append(arrays[i].items, Rule("custom", "ru", TRUE, 0))} :
       /\ arrays[i].writes < MaxWrites
       /\ op = "pop" => Len(arrays[i].items) > 0
       /\ arrays' = [j \in 1..Len(arrays) |->
                       IF j = i THEN [arrays[i] EXCEPT !.items = new, !.writes = @ + 1]
                       ELSE IF arrays[i].isCatalog /\ arrays[j].isCatalog
                       THEN [arrays[j] EXCEPT !.items = new]
                       ELSE arrays[j]]
       /\ catalog' = IF arrays[i].isCatalog THEN new ELSE catalog
       /\ UNCHANGED <<phase, text, settings, result, ctx, log, pass, lastIndex, scan, calls>>

SpecRegistry ==
    InitRegistry /\ [][Next \/ GetAllRules \/ GetRulesForLocale \/ WriteArray]_vars

\* ------------------------------------------------------------------------
\* zh/quotes/corner and ja/quotes/corner alone (the two rules have the same
\* apply), on texts of straight quotes, curly quotes, outer corner brackets
\* and 中
\* ------------------------------------------------------------------------

MaxCornerFrags == 6

InitCorner ==
    /\ phase = "called"
    /\ text \in Texts({<<34>>, <<8220>>, <<8221>>, <<12300>>, <<12301>>, <<20013>>},
                      MaxCornerFrags)
    /\ settings \in [locale : {"zh", "ja"}, enabledRules : {<< >>}]
    /\ result = << >>
    /\ ctx = Idle.ctx
    /\ log = << >>
    /\ pass = 1
    /\ catalog = ALL_RULES
    /\ arrays = << >>
    /\ lastIndex = Idle.lastIndex
    /\ scan = Idle.scan
    /\ calls = Idle.calls

\* zhQuotes.apply(text) or jaQuotes.apply(text)
ApplyCorner ==
    /\ phase = "called"
    /\ result' = IF settings.locale = "zh" THEN zhQuotes(text) ELSE jaQuotes(text)
    /\ phase' = "returned"
    /\ UNCHANGED <<text, settings, ctx, log, pass, lastIndex, scan, calls, catalog, arrays>>

SpecCorner == InitCorner /\ [][ApplyCorner]_vars

\* ------------------------------------------------------------------------
\* ru/numbers/decimals called with no protected range, next to the
\* applyDecimal of the test suite
\* ------------------------------------------------------------------------

\* applyDecimal of 'RU: Decimals': the dots between two digits are grouped
\* into runs separated by digits alone, and a dot becomes a comma when its
\* run holds no other dot
applyDecimal(t) ==
    LET dotPositions == {i \in 2..(Len(t) - 1) :
                            t[i] = 46 /\ t[i - 1] \in DIGIT /\ t[i + 1] \in DIGIT}
        multiDotPositions ==
            {i \in dotPositions :
                \E j \in dotPositions :
                   /\ j # i
                   /\ \A m \in 1..Len(t) :
                         ((i < m /\ m < j) \/ (j < m /\ m < i)) => t[m] \in DIGIT}
    IN  [i \in 1..Len(t) |->
            IF i \in dotPositions /\ i \notin multiDotPositions THEN 44 ELSE t[i]]

\* ruDecimals.apply(text, ctx) with ctx.protectedRanges = []
ApplyDecimalsUnprotected ==
    /\ phase = "called"
    /\ ctx' = [locale |-> "ru", protectedRanges |-> << >>]
    /\ result' = ruDecimals(text, << >>)
    /\ phase' = "returned"
    /\ UNCHANGED <<text, settings, log, pass, lastIndex, scan, calls, catalog, arrays>>

SpecDecimalsUnprotected == InitDecimals /\ [][ApplyDecimalsUnprotected]_vars

\* ------------------------------------------------------------------------
\* ru/spaces/shortwords alone, on chains made of the short words в and то
\* and of я, which is not in the list, each followed by a space, and of a
\* lone в, a space and a no-break space
\* ------------------------------------------------------------------------

MaxShortFrags == 5

InitShortWords ==
    /\ phase = "called"
    /\ text \in Texts({<<1074, 32>>, <<1090, 1086, 32>>, <<1103, 32>>, <<1074>>,
                       <<32>>, <<160>>}, MaxShortFrags)
    /\ settings = [locale |-> "ru",
                   enabledRules |-> [k \in {"ru/spaces/shortwords"} |-> TRUE]]
    /\ result = << >>
    /\ ctx = Idle.ctx
    /\ log = << >>
    /\ pass = 1
    /\ catalog = ALL_RULES
    /\ arrays = << >>
    /\ lastIndex = Idle.lastIndex
    /\ scan = Idle.scan
    /\ calls = Idle.calls

\* ruShortWords.apply(text)
ApplyShortWords ==
    /\ phase = "called"
    /\ result' = ruShortWords(text)
    /\ phase' = "returned"
    /\ UNCHANGED <<text, settings, ctx, log, pass, lastIndex, scan, calls, catalog, arrays>>

SpecShortWords == InitShortWords /\ [][ApplyShortWords]_vars

\* ------------------------------------------------------------------------
\* Properties
\* ------------------------------------------------------------------------

\* C1: a rule of the call's locale is applied iff its effective flag is
\* true: the entry of settings.enabledRules under the rule's id when there is
\* one, the rule's own enabled flag otherwise.  An entry under an id that no
\* rule has changes nothing: the call returns what it returns without it.
C1_EffectiveFlag ==
    (phase = "returned" /\ Len(trim(text)) > 0) =>
        /\ \A k \in 1..Len(ALL_RULES) :
              ALL_RULES[k].locale \in {ctx.locale, "common"} =>
                  ((\E e \in 1..Len(log) : log[e].id = ALL_RULES[k].id) <=>
                      IF ALL_RULES[k].id \in DOMAIN settings.enabledRules
                      THEN settings.enabledRules[ALL_RULES[k].id]
                      ELSE ALL_RULES[k].enabled)
        /\ \A key \in DOMAIN settings.enabledRules
                        \ {ALL_RULES[k].id : k \in 1..Len(ALL_RULES)} :
              result = applyTypography(text,
                         [settings EXCEPT !.enabledRules =
                             [j \in DOMAIN settings.enabledRules \ {key} |->
                                 settings.enabledRules[j]]]).result

\* "Он еще" under ru with ru/yo/basic switched off: the rule is not applied
\* and the word keeps its "е"
C1_Witness_Suppressed ==
    /\ phase = "returned"
    /\ pass = 1
    /\ text = <<1054, 1085, 32, 1077, 1097, 1077>>
    /\ settings.locale = "ru"
    /\ settings.enabledRules = [k \in {"ru/yo/basic"} |-> FALSE]
    /\ \A e \in 1..Len(log) : log[e].id # "ru/yo/basic"
    /\ \E e \in 1..Len(log) : log[e].id = "ru/quotes/guillemets"
    /\ 1105 \notin {result[i] : i \in 1..Len(result)}

\* C2: the rules a call applies are rules of the resolved locale or common
\* rules, each at most once, in ascending priority with equal priorities in
\* catalog order; the first receives the text of the call, each next one the
\* text the one before it returned, and the call returns the last one's text.
C2_PriorityOrderAndChaining ==
    LET \* the index in ALL_RULES of the rule of the k-th entry of the log
        CatalogIndex(k) ==
            CHOOSE j \in 1..Len(ALL_RULES) : ALL_RULES[j].id = log[k].id
    IN
    (phase = "returned" /\ Len(trim(text)) > 0) =>
        /\ \A k \in 1..Len(log) :
              /\ \E j \in 1..Len(ALL_RULES) : ALL_RULES[j].id = log[k].id
              /\ ALL_RULES[CatalogIndex(k)].locale \in {ctx.locale, "common"}
        /\ \A k1, k2 \in 1..Len(log) :
              k1 < k2 =>
                  \/ ALL_RULES[CatalogIndex(k1)].priority
                        < ALL_RULES[CatalogIndex(k2)].priority
                  \/ /\ ALL_RULES[CatalogIndex(k1)].priority
                          = ALL_RULES[CatalogIndex(k2)].priority
                     /\ CatalogIndex(k1) < CatalogIndex(k2)
        /\ \A k \in 1..Len(log) :
              log[k].input = IF k = 1 THEN text ELSE log[k - 1].output
        /\ result = IF Len(log) = 0 THEN text ELSE log[Len(log)].output

\* upper-case text followed by "да" in straight quotes, under ru: the case
\* rule (priority 5) rewrites the text, and the quotes rule (priority 30)
\* comes after the common rules and receives the rewritten text
C2_Witness_CaseBeforeQuotes ==
    /\ phase = "returned"
    /\ pass = 1
    /\ ctx.locale = "ru"
    /\ Len(log) >= 8
    /\ log[1].id = "ru/case/capslock"
    /\ log[1].input = text
    /\ log[1].output # text
    /\ log[2].id = "common/spaces/double"
    /\ log[8].id = "ru/quotes/guillemets"
    /\ log[8].input = log[1].output
    /\ log[8].output # log[8].input
    /\ 171 \in {result[i] : i \in 1..Len(result)}

\* C3: every protected range of the text of a call (URL, e-mail address,
\* IPv4 address, version string, hex literal) occurs unmodified in the text
\* the call returns.
C3_ProtectedRangesUnmodified ==
    (phase = "returned" /\ pass = 1) =>
        \A k \in 1..Len(findProtectedRanges(text)) :
            \E i \in 1..Len(result) :
                LitAt(result, i,
                      SubSeq(text, findProtectedRanges(text)[k][1] + 1,
                             findProtectedRanges(text)[k][2]))

\* C5: with an explicit locale and no overrides, applying applyTypography to
\* the text it returned returns that text unchanged.
C5_Idempotent ==
    (/\ phase = "returned"
     /\ pass = 2
     /\ settings.locale \in {"ru", "en", "fr", "zh", "ja", "common"}
     /\ settings.enabledRules = << >>) => result = text

\* C8: a call whose settings.locale is missing or is none of ru, en, fr, zh,
\* ja, common, auto returns what the call with locale auto returns.
C8_UnknownLocaleIsAuto ==
    (/\ phase = "returned"
     /\ pass = 1
     /\ settings.locale \notin {"ru", "en", "fr", "zh", "ja", "common", "auto"}) =>
        result = applyTypography(text, [settings EXCEPT !.locale = "auto"]).result

\* C4: ru/numbers/decimals keeps the length of the text and every character
\* inside a protected range; the only change it makes is a dot between two
\* digits becoming a comma; and it makes that change for every dot between
\* two digits that lie outside the protected ranges when the run of digits
\* and dots around it holds no other dot ("3.14" becomes "3,14",
\* "192.168.1.1" stays).
C4_DecimalsKeepProtected ==
    phase = "returned" =>
        /\ Len(result) = Len(text)
        /\ \A i \in 1..Len(text) :
              (\E k \in 1..Len(ctx.protectedRanges) :
                   /\ ctx.protectedRanges[k][1] <= i - 1
                   /\ i - 1 < ctx.protectedRanges[k][2])
                => result[i] = text[i]
        /\ \A i \in 1..Len(text) :
              result[i] # text[i] =>
                  /\ text[i] = 46 /\ result[i] = 44
                  /\ i > 1 /\ text[i - 1] \in DIGIT
                  /\ i < Len(text) /\ text[i + 1] \in DIGIT
        /\ \A i \in 2..(Len(text) - 1) :
              (/\ text[i] = 46 /\ text[i - 1] \in DIGIT /\ text[i + 1] \in DIGIT
               /\ \A j \in (i - 1)..(i + 1), k \in 1..Len(ctx.protectedRanges) :
                     ~(ctx.protectedRanges[k][1] <= j - 1
                         /\ j - 1 < ctx.protectedRanges[k][2])
               /\ \A j \in 1..Len(text) :
                     (j # i /\ text[j] = 46) =>
                         \E m \in 1..Len(text) :
                             /\ (j < m /\ m < i) \/ (i < m /\ m < j)
                             /\ text[m] \notin DIGIT \cup {46})
                => result[i] = 44
        /\ text = <<51, 46, 49, 52>> => result = <<51, 44, 49, 52>>
        /\ text = <<49, 57, 50, 46, 49, 54, 56, 46, 49, 46, 49>> => result = text

\* "3.14 http://a/3.14": the first dot becomes a comma, the one inside the
\* URL stays
C4_Witness_InsideAndOutside ==
    /\ phase = "returned"
    /\ text = <<51, 46, 49, 52, 32, 104, 116, 116, 112, 58, 47, 47, 97, 47,
                51, 46, 49, 52>>
    /\ ctx.protectedRanges = <<<<5, 18>>>>
    /\ result = <<51, 44, 49, 52, 32, 104, 116, 116, 112, 58, 47, 47, 97, 47,
                  51, 46, 49, 52>>

\* C6: in the scan of ruQuotes, depth is >= 0 after every character; a
\* closing marker met at depth 0 is emitted as the outer closer and leaves
\* depth at 0; and what the scan emits after it is what a scan started at
\* that position with depth 0 emits.
C6_DepthNeverNegative ==
    /\ scan.depth >= 0
    /\ \A p \in 1..Len(log) : log[p] >= 0
    /\ \A p \in 1..Len(log) :
          (/\ scan.chars[p] = 34
           /\ ~QuoteIsOpening(scan.chars, p - 1)
           /\ log[p] = 0) =>
              /\ scan.output[p] = 187
              /\ 0 = IF p < Len(log) THEN log[p + 1] ELSE scan.depth
              /\ phase = "returned" =>
                    SubSeq(result, p + 1, Len(result))
                      = QuoteScan(scan.chars,
                                  [i |-> p, depth |-> 0, output |-> << >>]).output

\* the text а" "а": the first marker closes at depth 0 and becomes the outer
\* closer, the next one opens at depth 0 and becomes the outer opener
C6_Witness_UnmatchedClosing ==
    /\ phase = "returned"
    /\ text = <<1072, 34, 32, 34, 1072, 34>>
    /\ log = <<0, 0, 0, 0, 1, 1>>
    /\ scan.depth = 0
    /\ result = <<1072, 187, 32, 171, 1072, 187>>

C10_LastTwoTokensJoined ==
    LET n == Len(text)
        max(S) == CHOOSE k \in S : \A j \in S : j <= k
        \* the first and the last index of the line that holds index i
        ls(i) == 1 + max({0} \cup {j \in 1..(i - 1) : text[j] = 10})
        le(i) == MinOf({n + 1} \cup {j \in (i + 1)..n : text[j] = 10}) - 1
        \* the last index of that line before its trailing whitespace
        te(i) == max({0} \cup {j \in ls(i)..le(i) : text[j] \notin WS})
        spaces(i) == {j \in ls(i)..te(i) : text[j] = 32}
        glued(i) == /\ Cardinality(spaces(i)) >= 2
                    /\ i \in spaces(i)
                    /\ \A j \in spaces(i) : j <= i
    IN  phase = "returned" =>
            /\ Len(result) = n
            /\ \A i \in 1..n :
                  result[i] = IF glued(i) THEN 160 ELSE text[i]
            /\ \A k \in 1..n :
                  text[k] = 10 =>
                      result = nbspOrphan(SubSeq(text, 1, k - 1)) \o <<10>>
                                 \o nbspOrphan(SubSeq(text, k + 1, n))

\* "a a b" with a trailing tab, then "a a": the first line has three tokens
\* and gets the no-break space, the second has two and stays
C10_Witness_ThreeTokensAndTwo ==
    /\ phase = "returned"
    /\ text = <<97, 32, 97, 32, 98, 9, 10, 97, 32, 97>>
    /\ result = <<97, 32, 97, 160, 98, 9, 10, 97, 32, 97>>

\* C11: nbspOrphan leaves unchanged every line that has fewer than three
\* words, a word being a run of characters other than the space, wherever
\* the spaces of the line are.
C11_FewWordsUnchanged ==
    LET n == Len(text)
        max(S) == CHOOSE k \in S : \A j \in S : j <= k
        ls(i) == 1 + max({0} \cup {j \in 1..(i - 1) : text[j] = 10})
        le(i) == MinOf({n + 1} \cup {j \in (i + 1)..n : text[j] = 10}) - 1
        te(i) == max({0} \cup {j \in ls(i)..le(i) : text[j] \notin WS})
        words(i) == {j \in ls(i)..te(i) :
                        text[j] # 32 /\ (j = ls(i) \/ text[j - 1] = 32)}
    IN  phase = "returned" =>
            /\ Len(result) = n
            /\ \A i \in 1..n :
                  (text[i] # 10 /\ Cardinality(words(i)) < 3) => result[i] = text[i]

\* C12: a call whose settings.enabledRules holds TRUE under
\* "common/layout/orphan" applies that rule, and applies it last; a call
\* whose settings.enabledRules has no such key does not apply it.
C12_OrphanRunsLast ==
    (phase = "returned" /\ Len(trim(text)) > 0) =>
        IF "common/layout/orphan" \in DOMAIN settings.enabledRules
        THEN settings.enabledRules["common/layout/orphan"] =>
                /\ Len(log) > 0
                /\ log[Len(log)].id = "common/layout/orphan"
                /\ \A e \in 1..(Len(log) - 1) : log[e].id # "common/layout/orphan"
        ELSE \A e \in 1..Len(log) : log[e].id # "common/layout/orphan"

\* C13: every call of applyTypography returns, and so does the scan of
\* ruQuotes; the rule loop moves to a later rule of the list at every
\* iteration; an exec that finds a match leaves lastIndex beyond the value
\* it found; and every iteration of the quote scan moves to the next
\* character and emits one character.
C13_Terminates ==
    /\ <>(\/ phase = "returned"
          \/ phase = "stepping" /\ calls[1].pc = "done" /\ calls[2].pc = "done")
    /\ [][phase = "stepping" =>
            \A c \in 1..2 :
               /\ calls'[c].k >= calls[c].k
               /\ calls'[c].k <= Len(getRulesForLocale(calls'[c].locale))
               /\ (calls[c].pc = "apply" /\ calls'[c].pc \notin {"apply", "done"}) =>
                     calls'[c].k > calls[c].k
               /\ Len(calls'[c].ranges) > Len(calls[c].ranges) =>
                     lastIndex'[calls[c].p] > lastIndex[calls[c].p]]_vars
    /\ [][(phase = "scanning" /\ phase' = "scanning") =>
            /\ scan'.i = scan.i + 1
            /\ scan'.i <= Len(scan.chars)
            /\ Len(scan'.output) = scan'.i]_vars

\* the call on 'http://a.ru/1-2' under ru has gone through its last rule
\* and has returned
C13_Witness_Returned ==
    /\ phase = "stepping"
    /\ calls[1].pc = "done"
    /\ calls[1].locale = "ru"
    /\ calls[1].text = <<104, 116, 116, 112, 58, 47, 47, 97, 46, 114, 117, 47, 49, 45, 50>>
    /\ calls[1].k = Len(getRulesForLocale("ru"))
    /\ Len(calls[1].result) = Len(calls[1].text)

\* C14: a call of applyTypography changes nothing but its return value: no
\* statement of it assigns to the settings, every lastIndex of
\* PROTECTED_PATTERNS is 0 when the call returns, as it was when the call
\* was entered, and a second call with the same text and settings returns
\* the text the first returned.
C14_NoSideEffectSameResult ==
    /\ [](phase = "stepping" =>
            /\ (calls[1].pc = "done" /\ calls[2].pc \in {"start", "done"}) =>
                  lastIndex = [p \in 1..NPATTERNS |-> 0]
            /\ (calls[1].pc = "done" /\ calls[2].pc = "done") =>
                  /\ calls[2].text = calls[1].text
                  /\ calls[2].result = calls[1].result)
    /\ [][settings' = settings]_vars

\* both calls on 'http://a.ru/1-2' under ru have returned; the patterns
\* matched in it, and the rules changed the text
C14_Witness_SecondCallReturned ==
    /\ phase = "stepping"
    /\ calls[1].pc = "done"
    /\ calls[2].pc = "done"
    /\ settings.locale = "auto"
    /\ calls[2].text = <<104, 116, 116, 112, 58, 47, 47, 97, 46, 114, 117, 47, 49, 45, 50>>
    /\ calls[2].result # calls[2].text
    /\ findProtectedRanges(calls[2].text) # << >>

\* C15: whatever accessors and calls of applyTypography have run, and
\* whatever the callers have done to the arrays they were handed, the
\* catalog holds the rules it was built with in the same order: getAllRules
\* returns them in that order and getRulesForLocale returns, for every
\* locale, the list it returned at the start.
C15_RegistryReadOnly ==
    /\ getAllRules(catalog).items = ALL_RULES
    /\ \A locale \in {"ru", "en", "fr", "zh", "ja", "common"} :
          SortByPriority(FilterByLocale(catalog, locale)) = getRulesForLocale(locale)

\* applyTypography has returned, and the caller has reversed and extended
\* the array of getAllRules and truncated the array of
\* getRulesForLocale('ru')
C15_Witness_CallerWroteToArrays ==
    /\ phase = "returned"
    /\ Len(arrays) = 2
    /\ ~arrays[1].isCatalog
    /\ Len(arrays[1].items) = Len(ALL_RULES) + 1
    /\ arrays[1].items[2] = ALL_RULES[Len(ALL_RULES)]
    /\ arrays[2].writes = 2
    /\ arrays[2].items = SubSeq(getRulesForLocale("ru"), 1, Len(getRulesForLocale("ru")) - 2)

\* C16: a call of applyTypography on a text that is empty or holds only
\* white space and line terminators returns the text it was given and has
\* applied no rule, whatever the settings.
C16_BlankTextReturnedAsIs ==
    (phase = "returned" /\ \A i \in 1..Len(text) : text[i] \in WS) =>
        /\ result = text
        /\ log = << >>

\* the call on a space, a tab, a line feed and a no-break space under ru,
\* with an override that turns a rule on, has returned
C16_Witness_BlankUnderRu ==
    /\ phase = "returned"
    /\ text = <<32, 9, 10, 160>>
    /\ settings.locale = "ru"
    /\ "common/layout/orphan" \in DOMAIN settings.enabledRules

\* C17: the text ruQuotes.apply returns holds no straight double quote, and
\* a closing marker that leaves depth at 1 or more is emitted as the right
\* double quotation mark U+201D, which is neither the inner opener U+201E
\* nor the straight quote of the scan.
C17_NoStraightQuoteLeft ==
    /\ phase = "returned" => \A i \in 1..Len(result) : result[i] # 34
    /\ phase = "scanning" =>
          \A i \in 1..scan.i :
             (/\ scan.chars[i] = 34
              /\ ~QuoteIsOpening(scan.chars, i - 1)
              /\ log[i] - 1 >= 1) =>
                  /\ scan.output[i] = 8221
                  /\ scan.output[i] \notin {8222, 34}

\* C18: a text without kana in which the ideographs of U+4E00-9FFF,
\* U+3400-4DBF and U+F900-FAFF together are more than 20% of the
\* classifiable characters (these ideographs, Cyrillic, the French
\* diacritics and the Latin letters) is detected as zh.
C18_EveryIdeographRangeCounts ==
    LET n(lo, hi) == Cardinality({i \in 1..Len(text) : text[i] >= lo /\ text[i] <= hi})
        zh(ideographs, others) ==
            ideographs * 5 > ideographs + others => ctx.locale = "zh"
    IN  (phase = "returned" /\ n(12352, 12543) = 0) =>
            zh(n(19968, 40959) + n(13312, 19903) + n(63744, 64255),
               n(1024, 1279) + n(65, 90) + n(97, 122) + n(233, 233))

\* C19: a text below the thresholds of ja, zh and ru, with at least one
\* French diacritic and diacritics / (diacritics + Latin letters) > 0.03, is
\* detected as fr, with or without a plain Latin letter.
C19_DiacriticsAloneGiveFr ==
    LET counts == countChars(text)
    IN  (/\ phase = "returned"
         /\ counts.total > 0
         /\ counts.hiraganaKatakana * 20 <= counts.total
         /\ counts.cjk * 5 <= counts.total
         /\ counts.cyrillic * 5 <= counts.total
         /\ counts.french > 0
         /\ counts.french * 100 > 3 * (counts.french + counts.latin)) =>
            ctx.locale = "fr"

\* C20: every rule.apply of a call received, as ctx.protectedRanges, the
\* protected ranges of the very text it received as its input.
C20_RangesOfTheTextPassed ==
    phase = "returned" =>
        \A k \in 1..Len(log) :
           log[k].protectedRanges = findProtectedRanges(log[k].input)

\* 'http://a.ru/1-2' under fr: the punctuation rule puts a space before the
\* colon, the text no longer holds a URL, and the rules after it receive no
\* protected range although the text of the call had one
C20_Witness_RangesChangedWithText ==
    /\ phase = "returned"
    /\ settings.locale = "fr"
    /\ text = <<104, 116, 116, 112, 58, 47, 47, 97, 46, 114, 117, 47, 49, 45, 50>>
    /\ findProtectedRanges(text) = << <<0, 15>> >>
    /\ Len(log) = 11
    /\ log[8].protectedRanges = << <<0, 15>> >>
    /\ log[8].output # log[8].input
    /\ log[9].input = log[8].output
    /\ log[9].protectedRanges = << >>

\* C21: the ranges findProtectedRanges returns lie inside the text, are not
\* empty, come in ascending order of their start, and no two of them
\* overlap.
C21_RangesSortedAndDisjoint ==
    phase = "returned" =>
        /\ \A k \in 1..Len(ctx.protectedRanges) :
              /\ 0 <= ctx.protectedRanges[k][1]
              /\ ctx.protectedRanges[k][1] < ctx.protectedRanges[k][2]
              /\ ctx.protectedRanges[k][2] <= Len(text)
        /\ \A k \in 1..(Len(ctx.protectedRanges) - 1) :
              /\ ctx.protectedRanges[k][1] <= ctx.protectedRanges[k + 1][1]
              /\ ctx.protectedRanges[k][2] <= ctx.protectedRanges[k + 1][1]

\* C22: in the scan of ruQuotes a marker at index 0, or right after white
\* space or one of ( [ {, is emitted as an opener and adds 1 to depth; a
\* marker right after any other character that is not a quote is emitted as
\* a closer and takes 1 from depth, down to 0 at most.
C22_OpeningByPrecedingCharacter ==
    \A p \in 1..Len(log) :
       LET after == IF p < Len(log) THEN log[p + 1] ELSE scan.depth
       IN  scan.chars[p] = 34 =>
             /\ (p = 1 \/ (p > 1 /\ scan.chars[p - 1] \in WS \cup {40, 91, 123})) =>
                   /\ scan.output[p] \in {171, 8222}
                   /\ after = log[p] + 1
             /\ (p > 1 /\ scan.chars[p - 1] \notin WS \cup {40, 91, 123, 34}) =>
                   /\ scan.output[p] \in {187, 34}
                   /\ after = IF log[p] >= 1 THEN log[p] - 1 ELSE 0

\* ("а" and «а»: the marker after the bracket and the marker at index 0
\* open, the marker after the letter closes
C22_Witness_AfterBracketAndLetter ==
    /\ phase = "returned"
    /\ text = <<40, 34, 1072, 34, 32, 171>>
    /\ log = <<0, 0, 1, 1, 0, 0>>
    /\ result = <<40, 171, 1072, 187, 32, 171>>

\* C23: in the scan of ruQuotes a marker right after a marker that was
\* emitted as an opener is emitted as an opener too and adds 1 to depth: two
\* markers in a row at the start of a quotation give the outer opener, the
\* inner opener and depth 2.
C23_MarkerAfterOpenerOpens ==
    \A p \in 2..Len(log) :
       (/\ scan.chars[p] = 34
        /\ scan.chars[p - 1] = 34
        /\ scan.output[p - 1] \in {171, 8222}) =>
           /\ scan.output[p] \in {171, 8222}
           /\ log[p] + 1 = IF p < Len(log) THEN log[p + 1] ELSE scan.depth
           /\ (log[p - 1] = 0) => (scan.output[p - 1] = 171 /\ scan.output[p] = 8222
                                     /\ log[p] + 1 = 2)

\* C24: in the scan of ruQuotes an opening marker is emitted as the outer
\* opener when depth is 0 and as the inner opener at every other depth, and
\* adds 1 to depth; a closing marker takes 1 from depth, and is emitted as
\* the outer closer when the result is 0 or less, depth then being 0, and as
\* the inner closer at every other depth.  The inner closer is one glyph,
\* the same at every depth and none of the three other glyphs.
C24_GlyphByDepth ==
    LET after(p) == IF p < Len(log) THEN log[p + 1] ELSE scan.depth
        opening(p) == p = 1 \/ scan.chars[p - 1] \in WS \cup {40, 91, 123}
        innerClosers == {p \in 1..Len(log) :
                           scan.chars[p] = 34 /\ ~opening(p) /\ log[p] - 1 > 0}
    IN  /\ \A p \in 1..Len(log) :
              scan.chars[p] = 34 =>
                /\ opening(p) =>
                      /\ scan.output[p] = IF log[p] = 0 THEN 171 ELSE 8222
                      /\ after(p) = log[p] + 1
                /\ (~opening(p) /\ log[p] - 1 <= 0) =>
                      /\ scan.output[p] = 187
                      /\ after(p) = 0
        /\ \A p \in innerClosers :
              /\ after(p) = log[p] - 1
              /\ scan.output[p] \notin {171, 187, 8222}
              /\ \A q \in innerClosers : scan.output[q] = scan.output[p]

\* '" " ""' followed by nothing: three openers, the second and the third the
\* inner one, then a closer at depth 3, which is the inner closer
C24_Witness_ThirdLevel ==
    /\ phase = "returned"
    /\ text = <<34, 32, 34, 32, 34, 34>>
    /\ log = <<0, 1, 1, 2, 2, 3>>
    /\ scan.depth = 2
    /\ SubSeq(result, 1, 5) = <<171, 32, 8222, 32, 8222>>

\* C25: the text ruQuotes.apply returns is as long as the text it was given,
\* and holds the character of the text at every position where the text
\* holds none of the quote glyphs the rule recognizes.
C25_OnlyQuotePositionsChange ==
    phase = "returned" =>
        /\ Len(result) = Len(text)
        /\ \A i \in 1..Len(text) :
              text[i] \notin {34, 171, 187, 8222, 8220, 8221} => result[i] = text[i]

\* («а" (: the guillemet and the straight quote are replaced, the brackets,
\* the letter and the space stay where they are
C25_Witness_QuotesReplacedInPlace ==
    /\ phase = "returned"
    /\ text = <<40, 171, 1072, 34, 32, 40>>
    /\ result = <<40, 171, 1072, 187, 32, 40>>

\* C26: on a text whose quotations are written with curly quotes, or with
\* outer corner brackets, for both levels, properly nested and at most two
\* levels deep, the corner-quote rule of zh and of ja returns the text with
\* the outer pair around every quotation of the first level and the inner
\* pair around every quotation nested in one, also when one quotation holds
\* two nested ones; no outer opener is left inside an open outer quotation.
C26_NestedGetsInnerPair ==
    LET depth(o, c, i) == Cardinality({j \in 1..(i - 1) : text[j] = o})
                            - Cardinality({j \in 1..(i - 1) : text[j] = c})
        nested(o, c) ==
            /\ \A i \in 1..(Len(text) + 1) : depth(o, c, i) \in 0..2
            /\ depth(o, c, Len(text) + 1) = 0
            /\ \A i \in 1..Len(text) : text[i] \in {o, c, 20013}
        expected(o, c) ==
            [i \in 1..Len(text) |->
                IF text[i] = o THEN (IF depth(o, c, i) = 0 THEN 12300 ELSE 12302)
                ELSE IF text[i] = c THEN (IF depth(o, c, i) = 1 THEN 12301 ELSE 12303)
                ELSE text[i]]
        open(i) == Cardinality({j \in 1..(i - 1) : result[j] = 12300})
                     - Cardinality({j \in 1..(i - 1) : result[j] = 12301})
    IN  phase = "returned" =>
            /\ nested(8220, 8221) => result = expected(8220, 8221)
            /\ nested(12300, 12301) =>
                  /\ result = expected(12300, 12301)
                  /\ \A i \in 1..Len(result) : result[i] = 12300 => open(i) = 0

\* C27: called with no protected range, ru/numbers/decimals returns what
\* applyDecimal of the test suite returns: 3.14 becomes 3,14, and 3.14.2 and
\* 192.168.1.1 come back unchanged.
C27_AgreesWithApplyDecimal ==
    phase = "returned" =>
        /\ result = applyDecimal(text)
        /\ text = <<51, 46, 49, 52>> => result = <<51, 44, 49, 52>>
        /\ text = <<51, 46, 49, 52, 46, 49>> => result = text
        /\ text = <<49, 57, 50, 46, 49, 54, 56, 46, 49, 46, 49>> => result = text

\* C28: in the text ruShortWords.apply returns, no word of SHORT_WORDS that
\* stands at the start of the text or after white space (the no-break space
\* included) is followed by a regular space, however long the chain of short
\* words is; and the rule returns that text unchanged when it is applied to
\* it.
C28_ShortWordsFixedPoint ==
    phase = "returned" =>
        /\ \A i \in 1..Len(result) :
              (i = 1 \/ result[i - 1] \in WS) =>
                  \A k \in 1..Len(SHORT_WORDS) :
                     LitAtI(result, i, SHORT_WORDS[k]) =>
                         ~LitAt(result, i + Len(SHORT_WORDS[k]), <<32>>)
        /\ ruShortWords(result) = result

\* 'в то в то в ': a chain of five short words, every one of them followed
\* by a no-break space in the result
C28_Witness_ChainOfFive ==
    /\ phase = "returned"
    /\ text = <<1074, 32, 1090, 1086, 32, 1074, 32, 1090, 1086, 32, 1074, 32>>
    /\ result = <<1074, 160, 1090, 1086, 160, 1074, 160, 1090, 1086, 160, 1074, 160>>

\* C29: in the scan of ruQuotes a closing marker met at depth 1 or more has
\* an opening marker before it that is not closed yet, and is emitted as the
\* outer closer exactly when the most recent such marker was emitted as the
\* outer opener, and as the inner closer exactly when that marker was
\* emitted as the inner opener.
C29_CloserMatchesOpener ==
    LET opening(p) == scan.chars[p] = 34
                        /\ (p = 1 \/ scan.chars[p - 1] \in WS \cup {40, 91, 123})
        closing(p) == scan.chars[p] = 34 /\ ~opening(p)
        \* the markers between q and p pair up among themselves
        paired(q, p) ==
            Cardinality({r \in (q + 1)..(p - 1) : opening(r)})
              = Cardinality({r \in (q + 1)..(p - 1) : closing(r)})
        openers(p) == {q \in 1..(p - 1) : opening(q) /\ paired(q, p)}
        last(S) == CHOOSE q \in S : \A r \in S : r <= q
    IN  \A p \in 1..Len(log) :
           (closing(p) /\ log[p] >= 1) =>
              /\ openers(p) # {}
              /\ scan.output[last(openers(p))] \in {171, 8222}
              /\ scan.output[last(openers(p))] = 171 <=> scan.output[p] = 187
              /\ scan.output[last(openers(p))] = 8222 <=>
                    scan.output[p] \notin {171, 187, 8222}

\* '" "а""': the inner quotation is closed by the inner closer, the outer
\* one by the outer closer
C29_Witness_TwoLevelsClosed ==
    /\ phase = "returned"
    /\ text = <<34, 32, 34, 1072, 34, 34>>
    /\ log = <<0, 1, 1, 2, 2, 1>>
    /\ result[1] = 171
    /\ result[3] = 8222
    /\ result[5] \notin {171, 187, 8222}
    /\ result[6] = 187

\* C30: the anti-orphan rule is idempotent: nbspOrphan applied to the text
\* it returned returns that text unchanged, so a second application glues no
\* further pair of tokens.
C30_OrphanIdempotent ==
    phase = "returned" => nbspOrphan(result) = result

====
